---------------------------- MODULE Spec2Model ----------------------------
(***************************************************************************)
(* Get-LLM-News: the collection -> merge -> deduplication -> ranking ->     *)
(* summary -> report pipeline (main.py, collectors/base.py,                *)
(* processors/dedup.py, processors/summarizer.py,                          *)
(* output/markdown_report.py).                                             *)
(*                                                                         *)
(* Strings are sequences of one-character strings, so that the regular     *)
(* expressions of _normalize_url and _normalize_title and difflib's        *)
(* SequenceMatcher act on characters as they do in the program.  The one   *)
(* CJK ideograph of the pools is written "U4E2D".                          *)
(*                                                                         *)
(* engagement_score is a float in the program, (engagement + 2*comments)   *)
(* times 3.0, 2.0, 1.5 or 1.0.  The model keeps twice that value, an       *)
(* integer, which orders records exactly as the float does.                *)
(***************************************************************************)
EXTENDS Integers, Sequences, FiniteSets, TLC

(***************************************************************************)
(* Characters                                                              *)
(***************************************************************************)
LowerChars == {"a", "b", "c", "d", "e", "f", "g", "h", "i", "l", "m", "o",
               "p", "q", "r", "s", "t", "u", "x", "y", "z"}

UpperChars == {"A", "B"}

DigitChars == {"0", "1", "2"}

CJKChars == {"U4E2D"}

\* Python's \w on str patterns: Unicode letters, digits and the underscore.
WordChars == LowerChars \cup UpperChars \cup DigitChars \cup CJKChars \cup {"_"}

\* Python's \s and str.strip(): whitespace.
SpaceChars == {" ", "\t"}

\* str.lower() on one character.
LowerChar(c) ==
    CASE c = "A" -> "a"
      [] c = "B" -> "b"
      [] OTHER -> c

(***************************************************************************)
(* String helpers                                                          *)
(***************************************************************************)
\* s[i..j] (1-based, inclusive); empty when j < i.
Slice(s, i, j) == IF j < i THEN <<>> ELSE SubSeq(s, i, j)

\* Python's seq[:n] for n >= 0.
Take(seq, n) == Slice(seq, 1, IF n < Len(seq) THEN n ELSE Len(seq))

\* The literal lit occurs in s starting at position i.
MatchAt(s, i, lit) ==
    /\ i >= 1
    /\ i + Len(lit) - 1 <= Len(s)
    /\ \A k \in 1..Len(lit) : s[i + k - 1] = lit[k]

\* The position after the longest run of characters of class cls starting at i.
RECURSIVE RunEnd(_, _, _)
RunEnd(s, i, cls) ==
    IF i <= Len(s) /\ s[i] \in cls THEN RunEnd(s, i + 1, cls) ELSE i

\* The position after the longest run of characters not equal to c starting at i.
RECURSIVE RunEndNot(_, _, _)
RunEndNot(s, i, c) ==
    IF i <= Len(s) /\ s[i] # c THEN RunEndNot(s, i + 1, c) ELSE i

\* str.rstrip(chars) / str.lstrip(chars) / str.strip().
RECURSIVE RStrip(_, _)
RStrip(s, cls) ==
    IF Len(s) > 0 /\ s[Len(s)] \in cls THEN RStrip(Slice(s, 1, Len(s) - 1), cls)
    ELSE s

RECURSIVE LStrip(_, _)
LStrip(s, cls) ==
    IF Len(s) > 0 /\ s[1] \in cls THEN LStrip(Slice(s, 2, Len(s)), cls)
    ELSE s

Strip(s) == LStrip(RStrip(s, SpaceChars), SpaceChars)

\* str.replace(old, new): every non-overlapping occurrence, left to right.
RECURSIVE ReplaceFrom(_, _, _, _)
ReplaceFrom(s, i, old, new) ==
    IF i > Len(s) THEN <<>>
    ELSE IF MatchAt(s, i, old) THEN new \o ReplaceFrom(s, i + Len(old), old, new)
    ELSE <<s[i]>> \o ReplaceFrom(s, i + 1, old, new)

Replace(s, old, new) == ReplaceFrom(s, 1, old, new)

(***************************************************************************)
(* Deduplicator._normalize_url                                             *)
(***************************************************************************)
\* The literal alternatives of the tracking-key group: ref|source|fbclid|gclid.
TrackingKeys == << <<"r", "e", "f">>,
                   <<"s", "o", "u", "r", "c", "e">>,
                   <<"f", "b", "c", "l", "i", "d">>,
                   <<"g", "c", "l", "i", "d">> >>

UtmPrefix == <<"u", "t", "m", "_">>

\* Position after the key matched by (utm_\w+|ref|source|fbclid|gclid) at i,
\* provided "=" follows it; 0 when no alternative matches.  \w+ is greedy and
\* cannot give back characters to "=", which is no word character.
TrackingKeyEnd(s, i) ==
    LET utmEnd == RunEnd(s, i + Len(UtmPrefix), WordChars)
        lits   == {k \in 1..Len(TrackingKeys) :
                      /\ MatchAt(s, i, TrackingKeys[k])
                      /\ MatchAt(s, i + Len(TrackingKeys[k]), <<"=">>)}
    IN  IF /\ MatchAt(s, i, UtmPrefix)
           /\ utmEnd > i + Len(UtmPrefix)
           /\ MatchAt(s, utmEnd, <<"=">>)
        THEN utmEnd
        ELSE IF lits # {}
        THEN i + Len(TrackingKeys[CHOOSE k \in lits : \A m \in lits : k <= m])
        ELSE 0

\* "=[^&]*" after a key that ends before keyEnd: the position after the value;
\* 0 when no key matched.
TrackingValueEnd(s, keyEnd) ==
    IF keyEnd > 0 THEN RunEndNot(s, keyEnd + 1, "&") ELSE 0

\* Position after a match of [?&](utm_\w+|ref|source|fbclid|gclid)=[^&]* that
\* starts at i; 0 when the pattern does not match at i.
TrackingMatchEnd(s, i) ==
    IF i <= Len(s) /\ s[i] \in {"?", "&"}
    THEN TrackingValueEnd(s, TrackingKeyEnd(s, i + 1))
    ELSE 0

\* re.sub(pattern, "", url): leftmost non-overlapping matches are deleted.
\* SubTrackingAt is the step at position i, given where a match at i ends.
RECURSIVE SubTracking(_, _)
RECURSIVE SubTrackingAt(_, _, _)
SubTracking(s, i) ==
    IF i > Len(s) THEN <<>> ELSE SubTrackingAt(s, i, TrackingMatchEnd(s, i))

SubTrackingAt(s, i, matchEnd) ==
    IF matchEnd > 0 THEN SubTracking(s, matchEnd)
    ELSE <<s[i]>> \o SubTracking(s, i + 1)

HttpScheme == <<"h", "t", "t", "p", ":", "/", "/">>

HttpsScheme == <<"h", "t", "t", "p", "s", ":", "/", "/">>

_normalize_url(url) ==
    Replace(RStrip(SubTracking(url, 1), {"/"}), HttpScheme, HttpsScheme)

(***************************************************************************)
(* Deduplicator._normalize_title                                           *)
(***************************************************************************)
Lower(s) == [i \in 1..Len(s) |-> LowerChar(s[i])]

\* re.sub(r"[^\w\s\u4e00-\u9fff]", "", title)
RemoveSpecial(s) == SelectSeq(s, LAMBDA c : c \in WordChars \cup SpaceChars \cup CJKChars)

\* re.sub(r"\s+", " ", title)
RECURSIVE CollapseSpace(_, _)
CollapseSpace(s, i) ==
    IF i > Len(s) THEN <<>>
    ELSE IF s[i] \in SpaceChars
    THEN <<" ">> \o CollapseSpace(s, RunEnd(s, i, SpaceChars))
    ELSE <<s[i]>> \o CollapseSpace(s, i + 1)

_normalize_title(title) == CollapseSpace(RemoveSpecial(Strip(Lower(title))), 1)

(***************************************************************************)
(* difflib.SequenceMatcher(None, a, b).ratio()                             *)
(* No junk: isjunk is None and autojunk only acts on sequences of 200 or   *)
(* more elements.  Indices are Python's: 0-based, half-open.               *)
(***************************************************************************)
\* Length of the common run a[i:i+k] == b[j:j+k] within a[..ahi], b[..bhi].
RECURSIVE CommonRun(_, _, _, _, _, _)
CommonRun(a, b, i, j, ahi, bhi) ==
    IF i < ahi /\ j < bhi /\ a[i + 1] = b[j + 1]
    THEN 1 + CommonRun(a, b, i + 1, j + 1, ahi, bhi)
    ELSE 0

\* The length of the common run at every pair of start positions.
BlockSizes(a, b, alo, ahi, blo, bhi) ==
    [p \in (alo..(ahi - 1)) \X (blo..(bhi - 1)) |->
        CommonRun(a, b, p[1], p[2], ahi, bhi)]

\* The longest block of sizes; of those the earliest in a; of those the
\* earliest in b.  <<alo, blo, 0>> when nothing matches.
LongestBlock(sizes, alo, blo) ==
    LET starts == DOMAIN sizes
        tops == {p \in starts : \A q \in starts : sizes[q] <= sizes[p]}
        first == CHOOSE p \in tops : \A q \in tops :
                    \/ p[1] < q[1]
                    \/ (p[1] = q[1] /\ p[2] <= q[2])
    IN  IF starts = {} THEN <<alo, blo, 0>>
        ELSE IF sizes[first] = 0 THEN <<alo, blo, 0>>
        ELSE <<first[1], first[2], sizes[first]>>

find_longest_match(a, b, alo, ahi, blo, bhi) ==
    LongestBlock(BlockSizes(a, b, alo, ahi, blo, bhi), alo, blo)

\* get_matching_blocks, summed: the number of matched elements.  AroundBlock
\* is the recursion to the left and to the right of the block m = <<i, j, k>>.
RECURSIVE matching_size(_, _, _, _, _, _)
RECURSIVE AroundBlock(_, _, _, _, _, _, _)
matching_size(a, b, alo, ahi, blo, bhi) ==
    AroundBlock(a, b, alo, ahi, blo, bhi, find_longest_match(a, b, alo, ahi, blo, bhi))

AroundBlock(a, b, alo, ahi, blo, bhi, m) ==
    IF m[3] = 0 THEN 0
    ELSE m[3]
         + (IF alo < m[1] /\ blo < m[2]
            THEN matching_size(a, b, alo, m[1], blo, m[2]) ELSE 0)
         + (IF m[1] + m[3] < ahi /\ m[2] + m[3] < bhi
            THEN matching_size(a, b, m[1] + m[3], ahi, m[2] + m[3], bhi) ELSE 0)

\* ratio() = 2.0 * matches / (len(a) + len(b)), 1.0 for two empty sequences,
\* as the fraction <<numerator, denominator>>.
ratio(a, b) ==
    IF Len(a) + Len(b) = 0 THEN <<1, 1>>
    ELSE <<2 * matching_size(a, b, 0, Len(a), 0, Len(b)), Len(a) + Len(b)>>


(***************************************************************************)
(* Bounds of the model                                                     *)
(***************************************************************************)
\* The most records one input list holds.
MaxItems == 3

\* The most sources one configuration names.
MaxSources == 3

(***************************************************************************)
(* Pools the inputs are drawn from                                         *)
(***************************************************************************)
\* "https://x/p" and its variants, and one other page.
UrlBase == <<"h", "t", "t", "p", "s", ":", "/", "/", "x", "/", "p">>

UrlHttp == <<"h", "t", "t", "p", ":", "/", "/", "x", "/", "p">>

UrlSlash == UrlBase \o <<"/">>

UrlRef == UrlBase \o <<"?", "r", "e", "f", "=", "a">>

UrlUtm == UrlBase \o <<"/", "?", "u", "t", "m", "_", "s", "=", "y">>

UrlId == UrlBase \o <<"?", "i", "d", "=", "1">>

UrlRefId == UrlBase \o <<"?", "r", "e", "f", "=", "a", "&", "i", "d", "=", "1">>

UrlIdRef == UrlBase \o <<"?", "i", "d", "=", "1", "&", "r", "e", "f", "=", "a">>

UrlOther == <<"h", "t", "t", "p", "s", ":", "/", "/", "x", "/", "q">>

\* One distinct page per record: "https://x/a", "https://x/b", ...
PageChars == <<"a", "b", "c", "d", "e", "f">>

UrlOf(n) == <<"h", "t", "t", "p", "s", ":", "/", "/", "x", "/", PageChars[n]>>

UrlPool == {UrlBase, UrlHttp, UrlSlash, UrlRef, UrlUtm, UrlId, UrlRefId, UrlIdRef, UrlOther}
           \cup {UrlOf(n) : n \in 1..Len(PageChars)}

TitleAbcd == <<"a", "b", "c", "d">>

TitleAbcdBang == <<"A", "b", "c", "d", "!">>

TitleAbcx == <<"a", "b", "c", "x">>

TitleYbcx == <<"y", "b", "c", "x">>

TitleAbcde == <<"a", "b", "c", "d", "e">>

TitleAbcdxy == <<"a", "b", "c", "d", "x", "y">>

TitleAba == <<"a", "b", "a">>

TitleBabba == <<"b", "a", "b", "b", "a">>

TitleZz == <<"z", "z">>

TitleCjk == <<" ", "!", "a", "b", " ", " ", "U4E2D">>

TitlePool == {TitleAbcd, TitleAbcdBang, TitleAbcx, TitleYbcx, TitleAbcde, TitleAbcdxy,
              TitleAba, TitleBabba, TitleZz, TitleCjk}

TagPool == {<<>>, <<"Claude">>, <<"Cursor">>, <<"Claude", "Cursor">>}

(***************************************************************************)
(* NewsItem (collectors/base.py)                                           *)
(***************************************************************************)
\* A NewsItem as a collector builds it: summary and sentiment are empty.
NewsItem(title, url, source, engagement, comments_count, tags, kol_tier) ==
    [title |-> title, url |-> url, source |-> source,
     engagement |-> engagement, comments_count |-> comments_count,
     tags |-> tags, is_kol |-> (kol_tier # ""), kol_tier |-> kol_tier,
     summary |-> <<>>, sentiment |-> ""]

\* Tier B weighs like no tier.
kol_multiplier2_flat_B(kol_tier) ==
    CASE kol_tier = "S" -> 6
      [] kol_tier = "A" -> 4
      [] OTHER -> 2

\* Twice {"S": 3.0, "A": 2.0, "B": 1.5}.get(kol_tier, 1.0).
kol_multiplier2(kol_tier) ==
    CASE kol_tier = "S" -> 6
      [] kol_tier = "A" -> 4
      [] kol_tier = "B" -> 3
      [] OTHER -> 2

\* Twice NewsItem.engagement_score.
engagement_score2(item) ==
    (item.engagement + item.comments_count * 2) * kol_multiplier2(item.kol_tier)

(***************************************************************************)
(* Deduplicator (processors/dedup.py)                                      *)
(* Lists hold object identities (keys of the heap h); a record's fields    *)
(* are read through the heap, so a tag union done in place is seen by      *)
(* every list that holds the record.                                       *)
(***************************************************************************)
\* Deduplicator(similarity_threshold=0.75), as the fraction 75/100.
similarity_threshold == <<75, 100>>

\* r >= t for two fractions with positive denominators.
FractionGE(r, t) == r[1] * t[2] >= t[1] * r[2]

\* similarity >= self.similarity_threshold, on normalized titles.
ReachesThreshold(normalized_title, kept_title) ==
    FractionGE(ratio(normalized_title, kept_title), similarity_threshold)

\* The normalized URL of every URL of the pool, as a stored table (built entry
\* by entry, so that the normalization is not redone at every use).
RECURSIVE NormalizedUrlOn(_)
NormalizedUrlOn(urls) ==
    LET u == CHOOSE x \in urls : TRUE
    IN  IF urls = {u} THEN u :> _normalize_url(u)
        ELSE (u :> _normalize_url(u)) @@ NormalizedUrlOn(urls \ {u})

NormalizedUrl == NormalizedUrlOn(UrlPool)

\* Whether a candidate title is a duplicate of a kept title, for every pair of
\* titles of the pool, as a stored table.
RECURSIVE IsDuplicateOfKeptOn(_, _)
IsDuplicateOfKeptOn(title, kept_titles) ==
    LET t == CHOOSE x \in kept_titles : TRUE
        hit == ReachesThreshold(_normalize_title(title), _normalize_title(t))
    IN  IF kept_titles = {t} THEN <<title, t>> :> hit
        ELSE (<<title, t>> :> hit) @@ IsDuplicateOfKeptOn(title, kept_titles \ {t})

RECURSIVE IsDuplicateTitleOn(_)
IsDuplicateTitleOn(titles) ==
    LET t == CHOOSE x \in titles : TRUE
    IN  IF titles = {t} THEN IsDuplicateOfKeptOn(t, TitlePool)
        ELSE IsDuplicateOfKeptOn(t, TitlePool) @@ IsDuplicateTitleOn(titles \ {t})

IsDuplicateTitle == IsDuplicateTitleOn(TitlePool)

\* Position of key in keys, 0 when absent.
IndexOf(keys, key) ==
    IF \E i \in 1..Len(keys) : keys[i] = key
    THEN CHOOSE i \in 1..Len(keys) : keys[i] = key /\ \A j \in 1..(i - 1) : keys[j] # key
    ELSE 0

\* The loop of _deduplicate_by_url from item i on.  url_map is a dict: keys
\* keeps the insertion order of the normalized URLs, vals the record of each.
\* UrlMapPut is the loop body on items[i], given its normalized URL.
RECURSIVE UrlMapFrom(_, _, _, _, _)
RECURSIVE UrlMapPut(_, _, _, _, _, _)
UrlMapFrom(h, items, i, keys, vals) ==
    IF i > Len(items) THEN vals
    ELSE UrlMapPut(h, items, i, keys, vals, NormalizedUrl[h[items[i]].url])

\* Replaces the stored record on an equal score too (>= for >).
UrlMapPut_last_wins(h, items, i, keys, vals, normalized_url) ==
    LET item == items[i]
        at == IndexOf(keys, normalized_url)
    IN  IF at # 0
        THEN IF engagement_score2(h[item]) >= engagement_score2(h[vals[at]])
             THEN UrlMapFrom(h, items, i + 1, keys, [vals EXCEPT ![at] = item])
             ELSE UrlMapFrom(h, items, i + 1, keys, vals)
        ELSE UrlMapFrom(h, items, i + 1,
                        Append(keys, normalized_url), Append(vals, item))

UrlMapPut(h, items, i, keys, vals, normalized_url) ==
    LET item == items[i]
        at == IndexOf(keys, normalized_url)
    IN  IF at # 0
        THEN IF engagement_score2(h[item]) > engagement_score2(h[vals[at]])
             THEN UrlMapFrom(h, items, i + 1, keys, [vals EXCEPT ![at] = item])
             ELSE UrlMapFrom(h, items, i + 1, keys, vals)
        ELSE UrlMapFrom(h, items, i + 1,
                        Append(keys, normalized_url), Append(vals, item))

\* list(url_map.values())
_deduplicate_by_url(h, items) == UrlMapFrom(h, items, 1, <<>>, <<>>)

\* sorted(items, key=lambda x: x.engagement_score, reverse=True): stable, so
\* records of equal score keep their order.
RECURSIVE SortedFrom(_, _, _, _)
SortedFrom(h, items, i, acc) ==
    IF i > Len(items) THEN acc
    ELSE LET x == items[i]
             ahead == {k \in 1..Len(acc) :
                          engagement_score2(h[acc[k]]) >= engagement_score2(h[x])}
             n == Cardinality(ahead)
         IN  SortedFrom(h, items, i + 1,
                        Slice(acc, 1, n) \o <<x>> \o Slice(acc, n + 1, Len(acc)))

\* A sort that is not stable: a record goes ahead of the records of equal
\* score already placed.
RECURSIVE UnstableSortedFrom(_, _, _, _)
UnstableSortedFrom(h, items, i, acc) ==
    IF i > Len(items) THEN acc
    ELSE LET x == items[i]
             ahead == {k \in 1..Len(acc) :
                          engagement_score2(h[acc[k]]) > engagement_score2(h[x])}
             n == Cardinality(ahead)
         IN  UnstableSortedFrom(h, items, i + 1,
                                Slice(acc, 1, n) \o <<x>> \o Slice(acc, n + 1, Len(acc)))

sort_by_engagement_unstable(h, items) == UnstableSortedFrom(h, items, 1, <<>>)

\* Sorts in ascending order (reverse=True is lost).
sort_by_engagement_ascending(h, items) ==
    [k \in 1..Len(items) |-> SortedFrom(h, items, 1, <<>>)[Len(items) + 1 - k]]

sort_by_engagement(h, items) == SortedFrom(h, items, 1, <<>>)

\* for tag in item.tags: if tag not in kept_item.tags: kept_item.tags.append(tag)
RECURSIVE MergeTagsFrom(_, _, _)
MergeTagsFrom(kept_tags, item_tags, i) ==
    IF i > Len(item_tags) THEN kept_tags
    ELSE IF \E k \in 1..Len(kept_tags) : kept_tags[k] = item_tags[i]
    THEN MergeTagsFrom(kept_tags, item_tags, i + 1)
    ELSE MergeTagsFrom(Append(kept_tags, item_tags[i]), item_tags, i + 1)

\* kept_item.tags.extend(item.tags): the test "tag not in kept_item.tags" is lost.
MergeTags_extend(kept_tags, item_tags) == kept_tags \o item_tags

MergeTags(kept_tags, item_tags) == MergeTagsFrom(kept_tags, item_tags, 1)

\* The least member of a set of positions, 0 for the empty set.
FirstOf(hits) == IF hits = {} THEN 0 ELSE CHOOSE k \in hits : \A m \in hits : k <= m

\* The inner loop with a threshold of 0.5 in place of 0.75.
FirstDuplicateOf_half(h, kept, item) ==
    FirstOf({k \in 1..Len(kept) :
                FractionGE(ratio(_normalize_title(h[item].title),
                                 _normalize_title(h[kept[k]].title)), <<50, 100>>)})

\* The inner loop without its break: the last kept record that the candidate's
\* title reaches the threshold against.
FirstDuplicateOf_last_match(h, kept, item) ==
    LET hits == {k \in 1..Len(kept) : IsDuplicateTitle[<<h[item].title, h[kept[k]].title>>]}
    IN  IF hits = {} THEN 0 ELSE CHOOSE k \in hits : \A m \in hits : k >= m

\* The inner loop looking at the last kept record only.
FirstDuplicateOf_last_kept(h, kept, item) ==
    FirstOf({k \in {Len(kept)} \ {0} : IsDuplicateTitle[<<h[item].title, h[kept[k]].title>>]})

\* The inner loop of _deduplicate_by_title: the first kept record whose title
\* the candidate's title reaches the threshold against; 0 when there is none.
FirstDuplicateOf(h, kept, item) ==
    FirstOf({k \in 1..Len(kept) : IsDuplicateTitle[<<h[item].title, h[kept[k]].title>>]})

\* The end of one iteration with the tag union lost: a duplicate is only dropped.
TitleStepAt_no_union(h, kept, item, at) ==
    IF at # 0 THEN [kept |-> kept, heap |-> h]
    ELSE [kept |-> Append(kept, item), heap |-> h]

\* The union goes the wrong way: the kept record's tags are added to the
\* discarded candidate.
TitleStepAt_into_candidate(h, kept, item, at) ==
    IF at # 0
    THEN [kept |-> kept,
          heap |-> [h EXCEPT ![item].tags = MergeTags(@, h[kept[at]].tags)]]
    ELSE [kept |-> Append(kept, item), heap |-> h]

\* The end of one iteration of the outer loop, given the kept record the
\* candidate is a duplicate of (0 for none): the kept list and the heap.
TitleStepAt(h, kept, item, at) ==
    IF at # 0
    THEN [kept |-> kept,
          heap |-> [h EXCEPT ![kept[at]].tags = MergeTags(@, h[item].tags)]]
    ELSE [kept |-> Append(kept, item), heap |-> h]

\* One iteration of the outer loop of _deduplicate_by_title on candidate item.
TitleStep(h, kept, item) == TitleStepAt(h, kept, item, FirstDuplicateOf(h, kept, item))

\* The outer loop from position i on.  TitleScanAfter continues after the
\* iteration that left s.
RECURSIVE TitleScanFrom(_, _, _, _)
RECURSIVE TitleScanAfter(_, _, _)
TitleScanFrom(h, sorted_items, i, kept) ==
    IF i > Len(sorted_items) THEN [items |-> kept, heap |-> h]
    ELSE TitleScanAfter(sorted_items, i, TitleStep(h, kept, sorted_items[i]))

TitleScanAfter(sorted_items, i, s) == TitleScanFrom(s.heap, sorted_items, i + 1, s.kept)

_deduplicate_by_title(h, items) ==
    IF items = <<>> THEN [items |-> items, heap |-> h]
    ELSE TitleScanFrom(h, sort_by_engagement(h, items), 1, <<>>)

\* Deduplicator.deduplicate: the list returned and the heap afterwards.
deduplicate(h, items) == _deduplicate_by_title(h, _deduplicate_by_url(h, items))


(***************************************************************************)
(* Summarizer (processors/summarizer.py)                                   *)
(***************************************************************************)
\* batch_size in summarize_items.
batch_size == 10

\* What json.loads(clean_response) gives in _summarize_batch:
\*   invalid : not JSON (also the fallback text of a missing API key):
\*             json.JSONDecodeError
\*   scalar  : a number, true, false or null: iterating it raises TypeError
\*   keys    : a non-empty object or string: iterating yields str values, and
\*             result.get raises AttributeError
\*   array   : a list of elements, each an object (with an "index" that is an
\*             int, missing (None here, default 0) or not a number) or some
\*             other JSON value, on which result.get raises AttributeError.
ResultElems ==
    [type : {"object"},
     index : {[kind |-> "int", value |-> 1], [kind |-> "missing", value |-> 0],
              [kind |-> "bad", value |-> 0]},
     summary : {<<"s">>}, sentiment : {"positive"}]
    \cup {[type |-> "other", index |-> [kind |-> "missing", value |-> 0],
           summary |-> <<>>, sentiment |-> ""]}

LLMResults ==
    {[kind |-> "invalid", elems |-> <<>>], [kind |-> "scalar", elems |-> <<>>],
     [kind |-> "keys", elems |-> <<>>]}
    \cup {[kind |-> "array", elems |-> e] :
            e \in {<<>>} \cup {<<x>> : x \in ResultElems}
                  \cup {<<x, y>> : x \in ResultElems, y \in ResultElems}}

\* The loop "for result in results" from element i on: the heap afterwards and
\* the exception that ended the loop ("" when it ran to its end).
RECURSIVE ApplyResultsFrom(_, _, _, _)
ApplyResultsFrom(h, items, elems, i) ==
    IF i > Len(elems) THEN [heap |-> h, exc |-> ""]
    ELSE LET result == elems[i]
         IN  IF result.type # "object" THEN [heap |-> h, exc |-> "AttributeError"]
             ELSE IF result.index.kind = "bad" THEN [heap |-> h, exc |-> "TypeError"]
             ELSE LET idx == (IF result.index.kind = "missing" THEN 0
                              ELSE result.index.value) - 1
                  IN  IF 0 <= idx /\ idx < Len(items)
                      THEN ApplyResultsFrom(
                               [h EXCEPT ![items[idx + 1]].summary = result.summary,
                                         ![items[idx + 1]].sentiment = result.sentiment],
                               items, elems, i + 1)
                      ELSE ApplyResultsFrom(h, items, elems, i + 1)

\* The except branch of _summarize_batch: defaults for what is still empty.
FallbackSummaries(h, items) ==
    [id \in DOMAIN h |->
        IF \E k \in 1..Len(items) : items[k] = id
        THEN [h[id] EXCEPT !.summary = IF @ = <<>> THEN Take(h[id].title, 50) ELSE @,
                           !.sentiment = IF @ = "" THEN "neutral" ELSE @]
        ELSE h[id]]

\* The try block is left by r.exc: TypeError is caught, AttributeError is not.
AfterResults(items, r) ==
    IF r.exc = "TypeError"
    THEN [heap |-> FallbackSummaries(r.heap, items), exc |-> ""]
    ELSE r

\* _summarize_batch on one LLM result: the heap afterwards and the exception
\* that leaves it ("" when it returns).
_summarize_batch(h, items, result) ==
    CASE result.kind = "invalid" -> [heap |-> FallbackSummaries(h, items), exc |-> ""]
      [] result.kind = "scalar" -> [heap |-> FallbackSummaries(h, items), exc |-> ""]
      [] result.kind = "keys" -> [heap |-> h, exc |-> "AttributeError"]
      [] OTHER -> AfterResults(items, ApplyResultsFrom(h, items, result.elems, 1))

\* What _call_llm returns to generate_daily_summary: some text (the model's or
\* the fallback's), or an empty string.
LLMDigests == {"LLM_DIGEST", ""}

NoDataDigest == "NO_DATA_DIGEST"

(***************************************************************************)
(* Ranking helpers and the report (dedup.py, markdown_report.py)           *)
(***************************************************************************)
\* Takes a record for a KOL's when it carries a tier.
filter_kol_items_by_tier(h, items) == SelectSeq(items, LAMBDA id : h[id].kol_tier # "")

filter_kol_items(h, items) == SelectSeq(items, LAMBDA id : h[id].is_kol)

\* The key "未分类" of the records that carry no tag.
Unclassified == "UNCLASSIFIED"

\* A dict of lists, as its keys in insertion order and the list of each key.
EmptyGroups == [keys |-> <<>>, members |-> <<>>]

\* groups.setdefault(key, []).append(item)
GroupAppend(groups, key, id) ==
    IF key \in DOMAIN groups.members
    THEN [groups EXCEPT !.members[key] = Append(@, id)]
    ELSE [keys |-> Append(groups.keys, key),
          members |-> groups.members @@ (key :> <<id>>)]

\* Keeps the first tag only.
RECURSIVE AppendToTags_first_only(_, _, _, _)
AppendToTags_first_only(groups, tags, id, t) ==
    IF t > 1 THEN groups
    ELSE AppendToTags_first_only(GroupAppend(groups, tags[t], id), tags, id, t + 1)

\* for tag in item.tags: groups.setdefault(tag, []).append(item), from the
\* t-th tag on.
RECURSIVE AppendToTags(_, _, _, _)
AppendToTags(groups, tags, id, t) ==
    IF t > Len(tags) THEN groups
    ELSE AppendToTags(GroupAppend(groups, tags[t], id), tags, id, t + 1)

\* The first loop of group_by_product, from the i-th record on.
RECURSIVE ProductGroupsFrom(_, _, _, _)
ProductGroupsFrom(h, items, i, groups) ==
    IF i > Len(items) THEN groups
    ELSE ProductGroupsFrom(h, items, i + 1,
             IF h[items[i]].tags = <<>>
             THEN GroupAppend(groups, Unclassified, items[i])
             ELSE AppendToTags(groups, h[items[i]].tags, items[i], 1))

\* for key in groups: groups[key] = sort_by_engagement(groups[key])
SortGroups(h, groups) ==
    [groups EXCEPT !.members =
        [key \in DOMAIN groups.members |-> sort_by_engagement(h, groups.members[key])]]

group_by_product(h, items) == SortGroups(h, ProductGroupsFrom(h, items, 1, EmptyGroups))

\* Keeps only the latest record of each source.
RECURSIVE SourceGroupsFrom_overwrite(_, _, _, _)
SourceGroupsFrom_overwrite(h, items, i, groups) ==
    IF i > Len(items) THEN groups
    ELSE SourceGroupsFrom_overwrite(h, items, i + 1,
             LET g == GroupAppend(groups, h[items[i]].source, items[i])
             IN  [g EXCEPT !.members[h[items[i]].source] = <<items[i]>>])

\* The loop of group_by_source, from the i-th record on.
RECURSIVE SourceGroupsFrom(_, _, _, _)
SourceGroupsFrom(h, items, i, groups) ==
    IF i > Len(items) THEN groups
    ELSE SourceGroupsFrom(h, items, i + 1,
             GroupAppend(groups, h[items[i]].source, items[i]))

\* The member lists are left in input order.
group_by_source(h, items) == SourceGroupsFrom(h, items, 1, EmptyGroups)

\* settings["collection"]["max_items_per_report"] when --max-items is absent.
DefaultMaxReportItems == 50

ReportPlaceholder == "SUMMARY_NOT_GENERATED"

\* No report file has been written.
NoReport ==
    [written |-> FALSE, items |-> <<>>, total_items |-> 0, kol_items |-> <<>>,
     product_groups |-> EmptyGroups, source_groups |-> EmptyGroups,
     daily_summary |-> ""]

\* What MarkdownReportGenerator.generate renders from.
RenderReport(h, items, digest) ==
    [written |-> TRUE,
     items |-> items,
     total_items |-> Len(items),
     kol_items |-> sort_by_engagement(h, filter_kol_items(h, items)),
     product_groups |-> group_by_product(h, items),
     source_groups |-> group_by_source(h, items),
     daily_summary |-> IF digest = "" THEN ReportPlaceholder ELSE digest]

(***************************************************************************)
(* The collectors' collect() (collectors/*.py)                             *)
(* A source item is what a platform answered for one post: its title (for  *)
(* a tweet or a weibo post, its text), its body text, its link (for a      *)
(* tweet or a weibo post, its id), its points and its publication time.    *)
(***************************************************************************)
\* get_all_keywords(settings): one tracked keyword.
Keywords == {<<"b", "c">>}

\* kw in text
Contains(text, kw) == \E i \in 1..(Len(text) + 1) : MatchAt(text, i, kw)

\* BaseCollector.filter_by_keywords
filter_by_keywords(text) == \E kw \in Keywords : Contains(Lower(text), Lower(kw))

\* match_product, with the one product "Claude" whose keywords are the tracked
\* ones.
match_product(text) ==
    IF \E kw \in Keywords : Contains(Lower(text), Lower(kw)) THEN <<"Claude">> ELSE <<>>

\* f"{title} {content}"
FullText(title, content) == title \o <<" ">> \o content

\* settings["collection"]["min_engagement"][platform], by its defaults.
MinEngagement(platform) ==
    CASE platform = "reddit" -> 10
      [] platform = "twitter" -> 20
      [] platform = "weibo" -> 50

\* datetime.now(timezone.utc) - timedelta(days=self.lookback_days)
Since == 1

\* A NewsItem with its published_at.
PublishedAt(item, published_at) == item @@ [published_at |-> published_at]

\* f"https://news.ycombinator.com/item?id={hit['objectID']}", of the k-th hit.
HnItemUrl(k) == <<"h", "n", "?", "i", "d", "=", PageChars[k]>>

\* The loop body of HackerNewsCollector._search on the k-th hit: the records
\* it appends.
HackerNews_search(hit, k) ==
    LET content == IF hit.body # <<>> THEN hit.body ELSE hit.title
        url == IF hit.link # <<>> THEN hit.link ELSE HnItemUrl(k)
    IN  IF ~filter_by_keywords(FullText(hit.title, content)) THEN <<>>
        ELSE <<PublishedAt(NewsItem(hit.title, url, "hackernews", hit.points, 0,
                                    match_product(FullText(hit.title, content)), ""),
                           hit.published)>>

\* RedditCollector._parse_reddit_post: the link is the post's permalink URL,
\* or its url when it has no permalink, or nothing.
_parse_reddit_post(hit) ==
    IF ~filter_by_keywords(FullText(hit.title, hit.body)) THEN <<>>
    ELSE IF hit.points < MinEngagement("reddit") THEN <<>>
    ELSE IF hit.published < Since THEN <<>>
    ELSE <<PublishedAt(NewsItem(hit.title, hit.link, "reddit", hit.points, 0,
                                match_product(FullText(hit.title,
                                    IF hit.body # <<>> THEN hit.body ELSE hit.title)), ""),
                       hit.published)>>

\* The loop body of TechNewsCollector._collect_rss on one feed entry.
TechNews_collect_rss(hit) ==
    IF ~filter_by_keywords(FullText(hit.title, hit.body)) THEN <<>>
    ELSE IF hit.published < Since THEN <<>>
    ELSE <<PublishedAt(NewsItem(hit.title, hit.link, "tech_news", 0, 0,
                                match_product(FullText(hit.title, hit.body)), ""),
                       hit.published)>>

\* TwitterCollector._parse_tweet, of a tweet whose author is no known KOL:
\* the url is made of the tweet's id.
_parse_tweet(hit) ==
    IF ~filter_by_keywords(hit.title) THEN <<>>
    ELSE IF hit.points < MinEngagement("twitter") THEN <<>>
    ELSE <<PublishedAt(NewsItem(Take(hit.title, 100), <<"t", "w", "/">> \o hit.link,
                                "twitter", hit.points, 0,
                                match_product(FullText(Take(hit.title, 100), hit.title)), ""),
                       hit.published)>>

\* WeiboZhihuCollector._parse_weibo_post, of a post whose author is no known
\* KOL: the url is made of the post's id.
_parse_weibo_post(hit) ==
    IF ~filter_by_keywords(hit.title) THEN <<>>
    ELSE IF hit.points < MinEngagement("weibo") THEN <<>>
    ELSE IF hit.published < Since THEN <<>>
    ELSE <<PublishedAt(NewsItem(Take(hit.title, 100), <<"w", "b", "/">> \o hit.link,
                                "weibo", hit.points, 0,
                                match_product(FullText(Take(hit.title, 100),
                                                       Take(hit.title, 2000))), ""),
                       hit.published)>>

\* What a collector makes of its k-th source item.
ParseHit(c, hit, k) ==
    CASE c = "hackernews" -> HackerNews_search(hit, k)
      [] c = "reddit" -> _parse_reddit_post(hit)
      [] c = "tech_news" -> TechNews_collect_rss(hit)
      [] c = "twitter" -> _parse_tweet(hit)
      [] c = "weibo_zhihu" -> _parse_weibo_post(hit)

\* The records a collector gathers from its source items, in the order of
\* the items: items.extend(results) over its queries.
RECURSIVE GatheredFrom(_, _, _, _)
GatheredFrom(c, source_items, k, acc) ==
    IF k > Len(source_items) THEN acc
    ELSE GatheredFrom(c, source_items, k + 1, acc \o ParseHit(c, source_items[k], k))

\* for item in items: if item.url not in seen: seen.add(item.url);
\* unique.append(item)
RECURSIVE UniqueByUrlFrom(_, _, _, _)
UniqueByUrlFrom(h, items, i, unique) ==
    IF i > Len(items) THEN unique
    ELSE IF \E k \in 1..Len(unique) : h[unique[k]].url = h[items[i]].url
    THEN UniqueByUrlFrom(h, items, i + 1, unique)
    ELSE UniqueByUrlFrom(h, items, i + 1, Append(unique, items[i]))

\* unique.sort(key=lambda x: x.published_at, reverse=True): stable.
RECURSIVE SortedByPublishedFrom(_, _, _, _)
SortedByPublishedFrom(h, items, i, acc) ==
    IF i > Len(items) THEN acc
    ELSE LET x == items[i]
             ahead == {k \in 1..Len(acc) : h[acc[k]].published_at >= h[x].published_at}
             n == Cardinality(ahead)
         IN  SortedByPublishedFrom(h, items, i + 1,
                                   Slice(acc, 1, n) \o <<x>> \o Slice(acc, n + 1, Len(acc)))

\* The end of collect() in HackerNewsCollector (lines 54-64), RedditCollector
\* (lines 43-52) and TwitterCollector (_deduplicate_and_sort).
DeduplicateAndSort(h, items, cap) ==
    Take(sort_by_engagement(h, UniqueByUrlFrom(h, items, 1, <<>>)), cap)

\* The end of TechNewsCollector.collect (lines 63-72).
TechNewsDeduplicateAndSort(h, items, cap) ==
    Take(SortedByPublishedFrom(h, UniqueByUrlFrom(h, items, 1, <<>>), 1, <<>>), cap)

\* The end of WeiboZhihuCollector.collect (lines 43-45).
WeiboZhihuSort(h, items, cap) == Take(sort_by_engagement(h, items), cap)

(***************************************************************************)
(* The timestamp of a source item.  What the platform sends is absent, is  *)
(* something that is no timestamp, or is a time; times are counted in      *)
(* days, 0 being older than the lookback window.                           *)
(***************************************************************************)
\* datetime.now(timezone.utc)
Now == 2

\* HackerNewsCollector._search: fromisoformat of hit.get("created_at", ""),
\* and now when it raises ValueError or AttributeError.
HackerNews_published_at(created) == IF created.kind = "time" THEN created.value ELSE Now

\* TwitterCollector._parse_twitter_time
_parse_twitter_time(created) == IF created.kind = "time" THEN created.value ELSE Now

\* TechNewsCollector._parse_feed_time: published_parsed, updated_parsed, the
\* published string, and now when none of them gives a time.
_parse_feed_time(created) == IF created.kind = "time" THEN created.value ELSE Now

\* WeiboZhihuCollector._parse_weibo_time: now for an empty string and for one
\* that matches none of its patterns.
_parse_weibo_time(created) == IF created.kind = "time" THEN created.value ELSE Now

\* RedditCollector._parse_reddit_post: post_data.get("created_utc", 0), which
\* datetime.fromtimestamp turns into the epoch when the field is absent.
created_utc(created) == IF created.kind = "absent" THEN 0 ELSE created.value

\* The time a collector reads from a source item's timestamp.
ParseTime(c, created) ==
    CASE c = "hackernews" -> HackerNews_published_at(created)
      [] c = "reddit" -> created_utc(created)
      [] c = "tech_news" -> _parse_feed_time(created)
      [] c = "twitter" -> _parse_twitter_time(created)
      [] c = "weibo_zhihu" -> _parse_weibo_time(created)

\* The source items a collector parses, each with the time read from its
\* timestamp.  datetime.fromtimestamp raises TypeError on a created_utc that
\* is no number: the exception leaves _parse_reddit_post and ends the
\* queries of the subreddit (reddit.py line 163), the records gathered so
\* far are kept.
RECURSIVE StampedFrom(_, _, _)
StampedFrom(c, source_items, k) ==
    IF k > Len(source_items) THEN <<>>
    ELSE IF c = "reddit" /\ source_items[k].created.kind = "unparseable" THEN <<>>
    ELSE <<source_items[k] @@ [published |-> ParseTime(c, source_items[k].created)]>>
         \o StampedFrom(c, source_items, k + 1)

(***************************************************************************)
(* The keyword queries of a collector (hackernews.py lines 40-52,          *)
(* reddit.py lines 54-166).  A query is answered with posts (ok), with a   *)
(* status other than 200 (status), or it raises: the connection fails, the *)
(* body is no JSON, or a post cannot be parsed (raises).                   *)
(***************************************************************************)
\* self.max_items when the configuration names no max_items_per_source.
DefaultMaxItemsPerSource == 30

\* The posts of the answers that carry posts, in order.
RECURSIVE HitsOf(_, _)
HitsOf(answers, i) ==
    IF i > Len(answers) THEN <<>>
    ELSE (IF answers[i].kind = "ok" THEN answers[i].hits ELSE <<>>) \o HitsOf(answers, i + 1)

\* The answers up to the first one that raises.
RECURSIVE BeforeRaise(_, _)
BeforeRaise(answers, i) ==
    IF i > Len(answers) \/ answers[i].kind = "raises" THEN <<>>
    ELSE <<answers[i]>> \o BeforeRaise(answers, i + 1)

\* The loop over self.keywords in HackerNewsCollector.collect, from the i-th
\* query on: a query that raises (raise_for_status included) is logged and
\* skipped, and the loop ends once max_items records are gathered.
RECURSIVE HackerNewsQueriesFrom(_, _, _, _)
HackerNewsQueriesFrom(answers, i, items, cap) ==
    IF i > Len(answers) THEN items
    ELSE LET results == IF answers[i].kind = "ok"
                        THEN GatheredFrom("hackernews", answers[i].hits, 1, <<>>)
                        ELSE <<>>
         IN  IF Len(items \o results) >= cap THEN items \o results
             ELSE HackerNewsQueriesFrom(answers, i + 1, items \o results, cap)

\* Every keyword query answers with its posts, whatever the other queries do.
_fetch_subreddit_api_isolated(answers) ==
    [raised |-> FALSE, items |-> GatheredFrom("reddit", HitsOf(answers, 1), 1, <<>>)]

\* RedditCollector._fetch_subreddit_api on the answers to one subreddit's
\* queries: a status other than 200 is skipped, an exception leaves the
\* method and the local list is lost.
_fetch_subreddit_api(answers) ==
    IF \E i \in 1..Len(answers) : answers[i].kind = "raises"
    THEN [raised |-> TRUE, items |-> <<>>]
    ELSE [raised |-> FALSE, items |-> GatheredFrom("reddit", HitsOf(answers, 1), 1, <<>>)]

\* The answers to the queries of one subreddit.
OfSubreddit(answers, name) == SelectSeq(answers, LAMBDA a : a.subreddit = name)

\* The loop over subreddits in RedditCollector._collect_with_api: items.extend
\* of what _fetch_subreddit_api returns; a subreddit whose fetch raised is
\* logged and skipped.
RECURSIVE _collect_with_api(_, _)
_collect_with_api(answers, names) ==
    IF names = <<>> THEN <<>>
    ELSE _fetch_subreddit_api(OfSubreddit(answers, Head(names))).items
         \o _collect_with_api(answers, Tail(names))

\* The loop over subreddits in RedditCollector._collect_with_json: the posts
\* are appended to the collector's list as they are parsed; an exception ends
\* the queries of its subreddit.
RECURSIVE _collect_with_json(_, _)
_collect_with_json(answers, names) ==
    IF names = <<>> THEN <<>>
    ELSE GatheredFrom("reddit", HitsOf(BeforeRaise(OfSubreddit(answers, Head(names)), 1), 1),
                      1, <<>>)
         \o _collect_with_json(answers, Tail(names))

(***************************************************************************)
(* State                                                                   *)
(***************************************************************************)
VARIABLES
    heap,            \* the NewsItem objects, by identity
    sources,         \* run_pipeline(sources=...)
    dry_run,         \* run_pipeline(dry_run=...)
    max_items,       \* run_pipeline(max_items=...): <<>> for None, <<n>> for n
    plan,            \* per source: what its collect() does in this run
    collectors,      \* the collectors constructed, as positions of sources
    task,            \* per collector: the state of its safe_collect task
    calls,           \* per collector: how often its collect() was called
    results,         \* per collector: what its safe_collect returned
    log,             \* the collectors' end-of-collection log lines, in order
    pc,              \* where run_pipeline is
    max_report_items,
    all_items,
    url_deduped,
    sorted_items,
    kept,
    scan,            \* position of the title phase in sorted_items
    unique_items,
    batch,           \* start of the next batch of summarize_items (0-based)
    daily_summary,
    report,          \* the report file
    error,           \* the exception that left run_pipeline, "" for none
    collector,       \* the collector whose collect() runs on its own, "" for none
    source_items,    \* what the platform answers to that collector, in order
    max_items_per_source,  \* settings["collection"]["max_items_per_source"]
    returned,        \* the list that collect() returned
    queries,         \* the answers to that collector's keyword queries, in order
    raw_title,       \* the argument of a call of _normalize_title
    normalized       \* what that call returned

vars == <<heap, sources, dry_run, max_items, plan, collectors, task, calls, results, log, pc,
          max_report_items, all_items, url_deduped, sorted_items, kept, scan,
          unique_items, batch, daily_summary, report, error,
          collector, source_items, max_items_per_source, returned, queries,
          raw_title, normalized>>

collectVars ==
    <<collector, source_items, max_items_per_source, returned, queries, raw_title, normalized>>

pipelineInputs == <<sources, dry_run, max_items, plan>>

dedupVars == <<url_deduped, sorted_items, kept, scan>>


(***************************************************************************)
(* Initial states                                                          *)
(***************************************************************************)
\* COLLECTOR_MAP's keys, as far as the configurations of the model name them.
COLLECTOR_MAP == {"hackernews", "reddit"}

ConfigNames == COLLECTOR_MAP \cup {"bogus"}

RECURSIVE SeqsUpTo(_, _)
SeqsUpTo(S, n) ==
    IF n = 0 THEN {<<>>}
    ELSE LET shorter == SeqsUpTo(S, n - 1)
         IN  shorter \cup {Append(q, x) : q \in shorter, x \in S}

SourceOptions == SeqsUpTo(ConfigNames, MaxSources)

\* What the record of a source is made of in the pipeline runs: sources at odd
\* positions report one page, sources at even positions another.
PipelineContents == <<<<UrlUtm, TitleAbcd, <<10, 0, "">>>>,
                      <<UrlOther, TitleCjk, <<50, 0, "S">>>>>>

ContentOf(position) == PipelineContents[((position - 1) % 2) + 1]

\* The records source position i returns, given how many each position returns:
\* identities are handed out in configuration order.
RECURSIVE CountBefore(_, _)
CountBefore(cnt, i) == IF i <= 1 THEN 0 ELSE cnt[i - 1] + CountBefore(cnt, i - 1)

ItemsOf(cnt, i) == [k \in 1..cnt[i] |-> CountBefore(cnt, i) + k]

OwnerOf(cnt, id) ==
    CHOOSE i \in DOMAIN cnt : CountBefore(cnt, i) < id /\ id <= CountBefore(cnt, i) + cnt[i]

\* No collector runs on its own.
NoCollect ==
    /\ collector = ""
    /\ source_items = <<>>
    /\ max_items_per_source = 0
    /\ returned = <<>>
    /\ queries = <<>>
    /\ raw_title = <<>>
    /\ normalized = <<>>

NoDedupState ==
    /\ url_deduped = <<>>
    /\ sorted_items = <<>>
    /\ kept = <<>>
    /\ scan = 0
    /\ unique_items = <<>>
    /\ batch = 0
    /\ daily_summary = ""
    /\ report = NoReport
    /\ error = ""

\* run_pipeline is entered without --max-items: the configuration is loaded,
\* nothing has run.  Each source's collect() returns at most one record, or
\* raises.  The runs with --max-items are those of InitCap.
Init ==
    /\ \E src \in SourceOptions :
       \E cnt \in [1..Len(src) -> 0..1] :
       \E raises \in [1..Len(src) -> BOOLEAN] :
          /\ \A i \in 1..Len(src) : src[i] \notin COLLECTOR_MAP => (cnt[i] = 0 /\ ~raises[i])
          /\ \A i \in 1..Len(src) : raises[i] => cnt[i] = 0
          /\ heap = [id \in 1..CountBefore(cnt, Len(src) + 1) |->
                       LET c == ContentOf(OwnerOf(cnt, id))
                       IN  NewsItem(c[2], c[1], src[OwnerOf(cnt, id)],
                                    c[3][1], c[3][2], <<"Claude">>, c[3][3])]
          /\ sources = src
          /\ plan = [i \in 1..Len(src) |-> [raises |-> raises[i], items |-> ItemsOf(cnt, i)]]
    /\ dry_run \in BOOLEAN
    /\ max_items = <<>>
    /\ collectors = <<>>
    /\ task = <<>>
    /\ calls = <<>>
    /\ results = <<>>
    /\ log = <<>>
    /\ pc = "init"
    /\ max_report_items = 0
    /\ all_items = <<>>
    /\ NoDedupState
    /\ NoCollect

\* The tags a record of a dedup input carries when its tags are not drawn.
TagsOf(id) == IF id % 2 = 1 THEN <<"Claude">> ELSE <<"Cursor">>

\* Input lists of deduplicate, in three families:
\*   url   : URL variants of the pages https://x/p and https://x/p?id=1, equal or
\*           unrelated titles
\*   title : one page per record, every title of the pool
\*   tags  : one page per record, a chain of similar titles, every tag list
UrlFamily ==
    {NewsItem(c[1], u, "hackernews", c[2], 0, <<>>, "") :
        c \in {<<TitleAbcd, 10>>, <<TitleAbcd, 50>>, <<TitleZz, 50>>},
        u \in {UrlBase, UrlHttp, UrlSlash, UrlRef, UrlId, UrlRefId, UrlIdRef}}

TitleFamily ==
    {NewsItem(t, <<>>, "reddit", 50, 0, <<>>, "") : t \in TitlePool}
    \cup {NewsItem(t, <<>>, "reddit", 10, 0, <<>>, "") : t \in {TitleAbcd, TitleAbcx, TitleYbcx}}

TagsFamily ==
    {NewsItem(c[1], <<>>, "twitter", 10, c[2], g, c[3]) :
        c \in {<<TitleAbcd, 20, "S">>, <<TitleAbcx, 20, "S">>,
                <<TitleAbcx, 0, "">>, <<TitleYbcx, 0, "">>},
        g \in TagPool}

DedupInput(n, h) ==
    \/ \E r \in [1..n -> UrlFamily] :
          h = [id \in 1..n |-> [r[id] EXCEPT !.tags = TagsOf(id)]]
    \/ \E r \in [1..n -> TitleFamily] :
          h = [id \in 1..n |-> [r[id] EXCEPT !.tags = TagsOf(id), !.url = UrlOf(id)]]
    \/ \E r \in [1..n -> TagsFamily] :
          h = [id \in 1..n |-> [r[id] EXCEPT !.url = UrlOf(id)]]

\* Deduplicator.deduplicate is entered with an arbitrary merged list (main.py
\* line 129), under the default report cap.
InitDedup ==
    /\ \E n \in 0..MaxItems : DedupInput(n, heap)
    /\ all_items = [i \in DOMAIN heap |-> i]
    /\ sources = <<>>
    /\ plan = <<>>
    /\ dry_run = TRUE
    /\ max_items = <<>>
    /\ collectors = <<>>
    /\ task = <<>>
    /\ calls = <<>>
    /\ results = <<>>
    /\ log = <<>>
    /\ pc = "dedup"
    /\ max_report_items = DefaultMaxReportItems
    /\ NoDedupState
    /\ NoCollect

\* Input lists of the report generator: every tag list, two sources, two
\* engagement values, in any order.
GroupFamily ==
    {NewsItem(TitleAbcd, <<>>, s, e, 0, g, "") :
        s \in {"hackernews", "reddit"}, e \in {10, 50}, g \in TagPool}

\* Records of every KOL tier (S, A, B, none, and a tier the score does not
\* know), with and without likes and comments.
ScoreFamily ==
    {NewsItem(TitleAbcd, <<>>, "twitter", c[1], c[2], <<"Claude">>, tier) :
        c \in {<<10, 5>>, <<10, 0>>, <<0, 5>>}, tier \in {"S", "A", "B", "", "C"}}

\* Records marked as a KOL's or not, with a tier or none (a KOL entry of the
\* configuration may carry an empty tier), and two engagement values.
KolFamily ==
    {[NewsItem(TitleAbcd, <<>>, "twitter", e, 0, <<"Claude">>, tier) EXCEPT !.is_kol = k] :
        e \in {10, 50}, tier \in {"", "S"}, k \in BOOLEAN}

ReportInput(n, h) ==
    \/ \E r \in [1..n -> GroupFamily] : h = [id \in 1..n |-> [r[id] EXCEPT !.url = UrlOf(id)]]
    \/ \E r \in [1..n -> ScoreFamily] : h = [id \in 1..n |-> [r[id] EXCEPT !.url = UrlOf(id)]]
    \/ \E r \in [1..n -> KolFamily] : h = [id \in 1..n |-> [r[id] EXCEPT !.url = UrlOf(id)]]

\* MarkdownReportGenerator.save is entered with an arbitrary list of records
\* and no digest (main.py line 155 with dry_run set).
InitReport ==
    /\ \E n \in 0..MaxItems : ReportInput(n, heap)
    /\ unique_items = [i \in DOMAIN heap |-> i]
    /\ all_items = <<>>
    /\ sources = <<>>
    /\ plan = <<>>
    /\ dry_run = TRUE
    /\ max_items = <<>>
    /\ collectors = <<>>
    /\ task = <<>>
    /\ calls = <<>>
    /\ results = <<>>
    /\ log = <<>>
    /\ pc = "report"
    /\ max_report_items = DefaultMaxReportItems
    /\ url_deduped = <<>>
    /\ sorted_items = <<>>
    /\ kept = <<>>
    /\ scan = 0
    /\ batch = 0
    /\ daily_summary = ""
    /\ report = NoReport
    /\ error = ""
    /\ NoCollect

\* Records of three unlike titles and two engagement values.
CapFamily ==
    {NewsItem(t, <<>>, "hackernews", e, 0, <<"Claude">>, "") :
        t \in {TitleAbcd, TitleZz, TitleCjk}, e \in {10, 50}}

\* run_pipeline is entered with one source, whose collect() returns up to
\* MaxItems records, and with --max-items absent, 0, 1 or 2.
InitCap ==
    /\ \E n \in 0..MaxItems : \E r \in [1..n -> CapFamily] :
          heap = [id \in 1..n |-> [r[id] EXCEPT !.url = UrlOf(id)]]
    /\ sources = <<"hackernews">>
    /\ plan = <<[raises |-> FALSE, items |-> [i \in DOMAIN heap |-> i]]>>
    /\ dry_run \in BOOLEAN
    /\ max_items \in {<<>>, <<0>>, <<1>>, <<2>>}
    /\ collectors = <<>>
    /\ task = <<>>
    /\ calls = <<>>
    /\ results = <<>>
    /\ log = <<>>
    /\ pc = "init"
    /\ max_report_items = 0
    /\ all_items = <<>>
    /\ NoDedupState
    /\ NoCollect

\* The collector classes.
CollectorNames == {"hackernews", "reddit", "tech_news", "twitter", "weibo_zhihu"}

\* What a platform answers: posts that carry the tracked keyword in their
\* title, under two links, with two point counts and two publication times;
\* and posts of one link or none, with a title that carries the keyword, one
\* that does not, or none, and a body that carries it or no body.
OrderItems ==
    {[title |-> TitleAbcd, body |-> <<>>, link |-> u, points |-> e, published |-> t] :
        u \in {UrlBase, UrlOther}, e \in {20, 50}, t \in {1, 2}}

EmptyItems ==
    {[title |-> title, body |-> body, link |-> u, points |-> 50, published |-> 1] :
        title \in {<<>>, TitleAbcd, TitleZz}, body \in {<<>>, <<"b", "c">>},
        u \in {<<>>, UrlBase}}

SourceItems(n, items) ==
    \/ items \in [1..n -> OrderItems]
    \/ items \in [1..n -> EmptyItems]

\* A collector's collect() is entered: its queries are answered with at most
\* MaxItems posts, and the configuration caps its result at one or two
\* records.
InitCollect ==
    /\ collector \in CollectorNames
    /\ \E n \in 0..MaxItems : SourceItems(n, source_items)
    /\ max_items_per_source \in {1, 2}
    /\ returned = <<>>
    /\ queries = <<>>
    /\ raw_title = <<>>
    /\ normalized = <<>>
    /\ heap = <<>>
    /\ sources = <<>>
    /\ plan = <<>>
    /\ dry_run = TRUE
    /\ max_items = <<>>
    /\ collectors = <<>>
    /\ task = <<>>
    /\ calls = <<>>
    /\ results = <<>>
    /\ log = <<>>
    /\ pc = "collect"
    /\ max_report_items = 0
    /\ all_items = <<>>
    /\ NoDedupState

\* The subreddits of the configuration.
Subreddits == <<"r1", "r2">>

\* Two posts that carry the tracked keyword, under two links.
QueryHits ==
    {[title |-> TitleAbcd, body |-> <<>>, link |-> u, points |-> 50, published |-> 1] :
        u \in {UrlBase, UrlOther}}

\* What one keyword query is answered with.
AnswerKinds ==
    {[kind |-> "raises", hits |-> <<>>], [kind |-> "status", hits |-> <<>>],
     [kind |-> "ok", hits |-> <<>>]}
    \cup {[kind |-> "ok", hits |-> <<hit>>] : hit \in QueryHits}

\* The collectors whose queries are followed one by one: Hacker News, and
\* Reddit with and without API credentials.
QueryCollectors == {"hackernews", "reddit_api", "reddit_json"}

\* collect() is entered; its queries, at most MaxItems, will be answered as
\* queries.answers tells, subreddit by subreddit for Reddit, and the token
\* exchange of the Reddit API succeeds or fails.
InitQueries ==
    /\ collector \in QueryCollectors
    /\ \E n \in 0..MaxItems : \E kinds \in [1..n -> AnswerKinds] :
       \E subs \in [1..n -> DOMAIN Subreddits] : \E token \in BOOLEAN :
          /\ \A i \in 1..n : \A j \in 1..n : i < j => subs[i] <= subs[j]
          /\ collector = "hackernews" => \A i \in 1..n : subs[i] = 1
          /\ collector # "reddit_api" => token
          /\ queries = [token |-> token,
                        answers |-> [i \in 1..n |->
                                        [subreddit |-> Subreddits[subs[i]],
                                         kind |-> kinds[i].kind, hits |-> kinds[i].hits]]]
    /\ source_items = <<>>
    /\ max_items_per_source = DefaultMaxItemsPerSource
    /\ returned = <<>>
    /\ raw_title = <<>>
    /\ normalized = <<>>
    /\ heap = <<>>
    /\ sources = <<>>
    /\ plan = <<>>
    /\ dry_run = TRUE
    /\ max_items = <<>>
    /\ collectors = <<>>
    /\ task = <<>>
    /\ calls = <<>>
    /\ results = <<>>
    /\ log = <<>>
    /\ pc = "queries"
    /\ max_report_items = 0
    /\ all_items = <<>>
    /\ NoDedupState

\* The timestamps a platform sends: none, one that cannot be parsed, a time
\* before the lookback window and one inside it.
Stamps ==
    {[kind |-> "absent", value |-> 0], [kind |-> "unparseable", value |-> 0],
     [kind |-> "time", value |-> 0], [kind |-> "time", value |-> Since]}

\* Posts that carry the tracked keyword, under two links, with the timestamp
\* the platform sent.
StampedItems ==
    {[title |-> TitleAbcd, body |-> <<>>, link |-> u, points |-> 50, created |-> c] :
        u \in {UrlBase, UrlOther}, c \in Stamps}

\* A collector's collect() is entered: its queries are answered with at most
\* MaxItems posts, and the cap of its result is the default.
InitStamps ==
    /\ collector \in CollectorNames
    /\ \E n \in 0..MaxItems : source_items \in [1..n -> StampedItems]
    /\ max_items_per_source = DefaultMaxItemsPerSource
    /\ returned = <<>>
    /\ queries = <<>>
    /\ raw_title = <<>>
    /\ normalized = <<>>
    /\ heap = <<>>
    /\ sources = <<>>
    /\ plan = <<>>
    /\ dry_run = TRUE
    /\ max_items = <<>>
    /\ collectors = <<>>
    /\ task = <<>>
    /\ calls = <<>>
    /\ results = <<>>
    /\ log = <<>>
    /\ pc = "stamps"
    /\ max_report_items = 0
    /\ all_items = <<>>
    /\ NoDedupState

\* The longest title handed to _normalize_title on its own.
MaxTitle == 4

\* The characters of those titles: a lowercase and an uppercase letter, a CJK
\* character, a space, a tab and a punctuation mark.
TitleChars == {"a", "A", "U4E2D", " ", "\t", "!"}

\* _normalize_title is called with any title of at most MaxTitle characters.
InitNormalize ==
    /\ \E n \in 0..MaxTitle : raw_title \in [1..n -> TitleChars]
    /\ normalized = <<>>
    /\ collector = ""
    /\ source_items = <<>>
    /\ max_items_per_source = 0
    /\ returned = <<>>
    /\ queries = <<>>
    /\ heap = <<>>
    /\ sources = <<>>
    /\ plan = <<>>
    /\ dry_run = TRUE
    /\ max_items = <<>>
    /\ collectors = <<>>
    /\ task = <<>>
    /\ calls = <<>>
    /\ results = <<>>
    /\ log = <<>>
    /\ pc = "normalize"
    /\ max_report_items = 0
    /\ all_items = <<>>
    /\ NoDedupState

\* Deduplicator._normalize_title(title) returns.
NormalizeTitle ==
    /\ pc = "normalize"
    /\ normalized' = _normalize_title(raw_title)
    /\ pc' = "normalized"
    /\ UNCHANGED <<heap, pipelineInputs, collector, source_items, max_items_per_source,
                   returned, queries, raw_title, collectors, task, calls, results, log,
                   max_report_items, all_items, dedupVars, unique_items, batch, daily_summary,
                   report, error>>

(***************************************************************************)
(* collect() of the five collectors, each on what its platform answers     *)
(***************************************************************************)
\* The identities of the records gathered, in the order they were gathered.
IdsOf(h) == [i \in DOMAIN h |-> i]

\* collect() returns: its records were created and its result is handed back.
CollectSets(gathered, result) ==
    /\ heap' = gathered
    /\ returned' = result
    /\ pc' = "collected"
    /\ UNCHANGED <<pipelineInputs, collectors, task, calls, results, log, max_report_items,
                   all_items, dedupVars, unique_items, batch, daily_summary, report, error,
                   collector, source_items, max_items_per_source, queries, raw_title,
                   normalized>>

HackerNewsCollect ==
    /\ pc = "collect"
    /\ collector = "hackernews"
    /\ LET items == GatheredFrom(collector, source_items, 1, <<>>)
       IN  CollectSets(items, DeduplicateAndSort(items, IdsOf(items), max_items_per_source))

RedditCollect ==
    /\ pc = "collect"
    /\ collector = "reddit"
    /\ LET items == GatheredFrom(collector, source_items, 1, <<>>)
       IN  CollectSets(items, DeduplicateAndSort(items, IdsOf(items), max_items_per_source))

TwitterCollect ==
    /\ pc = "collect"
    /\ collector = "twitter"
    /\ LET items == GatheredFrom(collector, source_items, 1, <<>>)
       IN  CollectSets(items, DeduplicateAndSort(items, IdsOf(items), max_items_per_source))

TechNewsCollect ==
    /\ pc = "collect"
    /\ collector = "tech_news"
    /\ LET items == GatheredFrom(collector, source_items, 1, <<>>)
       IN  CollectSets(items,
                       TechNewsDeduplicateAndSort(items, IdsOf(items), max_items_per_source))

WeiboZhihuCollect ==
    /\ pc = "collect"
    /\ collector = "weibo_zhihu"
    /\ LET items == GatheredFrom(collector, source_items, 1, <<>>)
       IN  CollectSets(items, WeiboZhihuSort(items, IdsOf(items), max_items_per_source))

\* HackerNewsCollector.collect over its keyword queries.
HackerNewsCollectQueries ==
    /\ pc = "queries"
    /\ collector = "hackernews"
    /\ LET items == HackerNewsQueriesFrom(queries.answers, 1, <<>>, max_items_per_source)
       IN  CollectSets(items, DeduplicateAndSort(items, IdsOf(items), max_items_per_source))

\* RedditCollector.collect with API credentials: the token exchange stands
\* outside every try, so its failure leaves collect().
RedditCollectWithApi ==
    /\ pc = "queries"
    /\ collector = "reddit_api"
    /\ IF queries.token
       THEN LET items == _collect_with_api(queries.answers, Subreddits)
            IN  CollectSets(items,
                            DeduplicateAndSort(items, IdsOf(items), max_items_per_source))
       ELSE /\ pc' = "collect_raised"
            /\ error' = "HTTPError"
            /\ UNCHANGED <<heap, pipelineInputs, collectVars, collectors, task, calls, results,
                           log, max_report_items, all_items, dedupVars, unique_items, batch,
                           daily_summary, report>>

\* RedditCollector.collect without credentials.
RedditCollectWithJson ==
    /\ pc = "queries"
    /\ collector = "reddit_json"
    /\ LET items == _collect_with_json(queries.answers, Subreddits)
       IN  CollectSets(items, DeduplicateAndSort(items, IdsOf(items), max_items_per_source))

\* collect() of any of the five collectors, on source items whose timestamps
\* it has to parse.
CollectStamped ==
    /\ pc = "stamps"
    /\ LET items == GatheredFrom(collector, StampedFrom(collector, source_items, 1), 1, <<>>)
       IN  CollectSets(items,
                       CASE collector = "tech_news" ->
                                TechNewsDeduplicateAndSort(items, IdsOf(items),
                                                           max_items_per_source)
                         [] collector = "weibo_zhihu" ->
                                WeiboZhihuSort(items, IdsOf(items), max_items_per_source)
                         [] OTHER ->
                                DeduplicateAndSort(items, IdsOf(items), max_items_per_source))

(***************************************************************************)
(* run_pipeline, step 2: the collectors (main.py lines 95-112)             *)
(***************************************************************************)
InitCollectors ==
    /\ pc = "init"
    /\ max_report_items' = IF max_items # <<>> /\ max_items[1] # 0
                           THEN max_items[1]
                           ELSE DefaultMaxReportItems
    /\ collectors' = SelectSeq([i \in 1..Len(sources) |-> i],
                               LAMBDA i : sources[i] \in COLLECTOR_MAP)
    /\ IF collectors' = <<>>
       THEN /\ pc' = "returned_none"
            /\ UNCHANGED <<task, calls, results>>
       ELSE /\ pc' = "gather"
            /\ task' = [k \in 1..Len(collectors') |-> "pending"]
            /\ calls' = [k \in 1..Len(collectors') |-> 0]
            /\ results' = [k \in 1..Len(collectors') |-> <<>>]
    /\ UNCHANGED <<heap, pipelineInputs, collectVars, log, all_items, dedupVars, unique_items,
                   batch, daily_summary, report, error>>

(***************************************************************************)
(* Step 3: asyncio.gather over safe_collect (main.py lines 116-117,        *)
(* base.py lines 167-176).  A task runs from its start to the await of     *)
(* collect(), and from collect()'s end to its own end.                     *)
(***************************************************************************)
\* safe_collect starts: collect() is called and awaited.
TaskStart(k) ==
    /\ pc = "gather"
    /\ task[k] = "pending"
    /\ task' = [task EXCEPT ![k] = "running"]
    /\ calls' = [calls EXCEPT ![k] = @ + 1]
    /\ UNCHANGED <<heap, pipelineInputs, collectVars, collectors, results, log, pc, max_report_items,
                   all_items, dedupVars, unique_items, batch, daily_summary, report, error>>

\* collect() returns its records: their number is logged, they are returned.
TaskReturn(k) ==
    /\ pc = "gather"
    /\ task[k] = "running"
    /\ ~plan[collectors[k]].raises
    /\ task' = [task EXCEPT ![k] = "done"]
    /\ results' = [results EXCEPT ![k] = plan[collectors[k]].items]
    /\ log' = Append(log, [event |-> "done", collector |-> k,
                           count |-> Len(plan[collectors[k]].items)])
    /\ UNCHANGED <<heap, pipelineInputs, collectVars, collectors, calls, pc, max_report_items,
                   all_items, dedupVars, unique_items, batch, daily_summary, report, error>>

\* safe_collect without its except branch: the exception of collect() leaves
\* gather and run_pipeline while other tasks may still be running.
TaskRaise_propagates(k) ==
    /\ pc = "gather"
    /\ task[k] = "running"
    /\ plan[collectors[k]].raises
    /\ pc' = "raised"
    /\ error' = "Exception"
    /\ UNCHANGED <<heap, pipelineInputs, collectVars, collectors, task, calls, results, log,
                   max_report_items, all_items, dedupVars, unique_items, batch,
                   daily_summary, report>>

\* collect() raises an Exception: the failure is logged and [] is returned.
TaskRaise(k) ==
    /\ pc = "gather"
    /\ task[k] = "running"
    /\ plan[collectors[k]].raises
    /\ task' = [task EXCEPT ![k] = "done"]
    /\ results' = [results EXCEPT ![k] = <<>>]
    /\ log' = Append(log, [event |-> "failed", collector |-> k, count |-> 0])
    /\ UNCHANGED <<heap, pipelineInputs, collectVars, collectors, calls, pc, max_report_items,
                   all_items, dedupVars, unique_items, batch, daily_summary, report, error>>

RECURSIVE Concat(_, _)
Concat(lists, i) == IF i > Len(lists) THEN <<>> ELSE lists[i] \o Concat(lists, i + 1)

\* A merge of the results in the order the tasks completed in (as with
\* asyncio.as_completed).
Merge_completion_order ==
    /\ pc = "gather"
    /\ \A k \in 1..Len(task) : task[k] = "done"
    /\ all_items' = Concat([n \in 1..Len(log) |-> results[log[n].collector]], 1)
    /\ pc' = "dedup"
    /\ UNCHANGED <<heap, pipelineInputs, collectVars, collectors, task, calls, results, log, max_report_items,
                   dedupVars, unique_items, batch, daily_summary, report, error>>

\* A merge as soon as one task is done (as with asyncio.wait and
\* FIRST_COMPLETED): the other tasks are never awaited.
Merge_first_completed ==
    /\ pc = "gather"
    /\ \E k \in 1..Len(task) : task[k] = "done"
    /\ all_items' = Concat(results, 1)
    /\ pc' = "dedup"
    /\ UNCHANGED <<heap, pipelineInputs, collectVars, collectors, task, calls, results, log, max_report_items,
                   dedupVars, unique_items, batch, daily_summary, report, error>>

\* gather returns once every task is done, with the results in the order of
\* its arguments; they are merged (main.py lines 117-127).
Merge ==
    /\ pc = "gather"
    /\ \A k \in 1..Len(task) : task[k] = "done"
    /\ all_items' = Concat(results, 1)
    /\ pc' = "dedup"
    /\ UNCHANGED <<heap, pipelineInputs, collectVars, collectors, task, calls, results, log, max_report_items,
                   dedupVars, unique_items, batch, daily_summary, report, error>>

\* The tags of record id with the tags of the other records of its
\* normalized url added, in list order.
RECURSIVE UrlMergedTagsFrom(_, _, _, _, _)
UrlMergedTagsFrom(h, items, i, id, acc) ==
    IF i > Len(items) THEN acc
    ELSE IF items[i] # id /\ NormalizedUrl[h[items[i]].url] = NormalizedUrl[h[id].url]
    THEN UrlMergedTagsFrom(h, items, i + 1, id, MergeTags(acc, h[items[i]].tags))
    ELSE UrlMergedTagsFrom(h, items, i + 1, id, acc)

\* The URL phase with a tag union like the title phase's: the survivor of a
\* url receives the tags of the records discarded for it.
DedupByUrl_merging ==
    /\ pc = "dedup"
    /\ url_deduped' = _deduplicate_by_url(heap, all_items)
    /\ heap' = [id \in DOMAIN heap |->
                   IF \E k \in 1..Len(url_deduped') : url_deduped'[k] = id
                   THEN [heap[id] EXCEPT
                            !.tags = UrlMergedTagsFrom(heap, all_items, 1, id, heap[id].tags)]
                   ELSE heap[id]]
    /\ pc' = "title_begin"
    /\ UNCHANGED <<pipelineInputs, collectVars, collectors, task, calls, results, log, max_report_items,
                   all_items, sorted_items, kept, scan, unique_items, batch,
                   daily_summary, report, error>>

(***************************************************************************)
(* Step 4: Deduplicator.deduplicate (main.py lines 131-132)                *)
(***************************************************************************)
\* _deduplicate_by_url (dedup.py line 37).
DedupByUrl ==
    /\ pc = "dedup"
    /\ url_deduped' = _deduplicate_by_url(heap, all_items)
    /\ pc' = "title_begin"
    /\ UNCHANGED <<heap, pipelineInputs, collectVars, collectors, task, calls, results, log, max_report_items,
                   all_items, sorted_items, kept, scan, unique_items, batch,
                   daily_summary, report, error>>

\* _deduplicate_by_title up to its loop (dedup.py lines 63-68).
TitleBegin ==
    /\ pc = "title_begin"
    /\ IF url_deduped = <<>>
       THEN /\ unique_items' = url_deduped
            /\ pc' = "rank"
            /\ UNCHANGED <<sorted_items, kept, scan>>
       ELSE /\ sorted_items' = sort_by_engagement(heap, url_deduped)
            /\ kept' = <<>>
            /\ scan' = 1
            /\ pc' = "title_scan"
            /\ UNCHANGED unique_items
    /\ UNCHANGED <<heap, pipelineInputs, collectVars, collectors, task, calls, results, log, max_report_items,
                   all_items, url_deduped, batch, daily_summary, report, error>>

TitleScanSets(s) ==
    /\ kept' = s.kept
    /\ heap' = s.heap

\* One iteration of the loop over sorted_items (dedup.py lines 70-89).
TitleScan ==
    /\ pc = "title_scan"
    /\ scan <= Len(sorted_items)
    /\ TitleScanSets(TitleStep(heap, kept, sorted_items[scan]))
    /\ scan' = scan + 1
    /\ UNCHANGED <<pipelineInputs, collectVars, collectors, task, calls, results, log, pc, max_report_items,
                   all_items, url_deduped, sorted_items, unique_items, batch,
                   daily_summary, report, error>>

\* The loop is over: kept is returned (dedup.py line 91, line 42).
TitleEnd ==
    /\ pc = "title_scan"
    /\ scan > Len(sorted_items)
    /\ unique_items' = kept
    /\ pc' = "rank"
    /\ UNCHANGED <<heap, pipelineInputs, collectVars, collectors, task, calls, results, log, max_report_items,
                   all_items, dedupVars, batch, daily_summary, report, error>>

\* The dry-run flag is not looked at: the summarizer always runs.
Rank_always_summarize ==
    /\ pc = "rank"
    /\ unique_items' = Take(sort_by_engagement(heap, unique_items), max_report_items)
    /\ pc' = "summarize"
    /\ batch' = 0
    /\ UNCHANGED <<heap, pipelineInputs, collectVars, collectors, task, calls, results, log,
                   max_report_items, all_items, dedupVars, daily_summary, report, error>>

\* sort_by_engagement(unique_items)[:max_report_items] (main.py line 136).
Rank ==
    /\ pc = "rank"
    /\ unique_items' = Take(sort_by_engagement(heap, unique_items), max_report_items)
    /\ pc' = IF dry_run THEN "report" ELSE "summarize"
    /\ batch' = 0
    /\ UNCHANGED <<heap, pipelineInputs, collectVars, collectors, task, calls, results, log, max_report_items,
                   all_items, dedupVars, daily_summary, report, error>>

(***************************************************************************)
(* Step 5: the summarizer (main.py lines 139-151)                          *)
(***************************************************************************)
\* items[i : i + batch_size]
BatchAt(items, i) ==
    Slice(items, i + 1, IF i + batch_size < Len(items) THEN i + batch_size ELSE Len(items))

SummarizeBatchSets(r) ==
    /\ heap' = r.heap
    /\ IF r.exc = ""
       THEN /\ batch' = batch + batch_size
            /\ UNCHANGED <<pc, error>>
       ELSE /\ pc' = "raised"
            /\ error' = r.exc
            /\ UNCHANGED batch

\* One batch of summarize_items, on what the LLM answers; an exception that
\* _summarize_batch does not catch leaves run_pipeline.
SummarizeBatch ==
    /\ pc = "summarize"
    /\ batch < Len(unique_items)
    /\ \E result \in LLMResults :
          SummarizeBatchSets(_summarize_batch(heap, BatchAt(unique_items, batch), result))
    /\ UNCHANGED <<pipelineInputs, collectVars, collectors, task, calls, results, log, max_report_items,
                   all_items, dedupVars, unique_items, daily_summary, report>>

\* summarize_items is over; generate_daily_summary.
DailySummary ==
    /\ pc = "summarize"
    /\ batch >= Len(unique_items)
    /\ IF unique_items = <<>>
       THEN daily_summary' = NoDataDigest
       ELSE daily_summary' \in LLMDigests
    /\ pc' = "report"
    /\ UNCHANGED <<heap, pipelineInputs, collectVars, collectors, task, calls, results, log, max_report_items,
                   all_items, dedupVars, unique_items, batch, report, error>>

(***************************************************************************)
(* Step 6: the report (main.py lines 153-164)                              *)
(***************************************************************************)
SaveReport ==
    /\ pc = "report"
    /\ report' = RenderReport(heap, unique_items, daily_summary)
    /\ pc' = "returned_path"
    /\ UNCHANGED <<heap, pipelineInputs, collectVars, collectors, task, calls, results, log, max_report_items,
                   all_items, dedupVars, unique_items, batch, daily_summary, error>>

(***************************************************************************)
(* Specifications                                                          *)
(***************************************************************************)
Next ==
    \/ InitCollectors
    \/ \E k \in 1..Len(task) : TaskStart(k)
    \/ \E k \in 1..Len(task) : TaskReturn(k)
    \/ \E k \in 1..Len(task) : TaskRaise(k)
    \/ Merge
    \/ DedupByUrl
    \/ TitleBegin
    \/ TitleScan
    \/ TitleEnd
    \/ Rank
    \/ SummarizeBatch
    \/ DailySummary
    \/ SaveReport

Spec == Init /\ [][Next]_vars

\* deduplicate and the ranking that follows it, on arbitrary input lists.
NextDedup ==
    \/ DedupByUrl
    \/ TitleBegin
    \/ TitleScan
    \/ TitleEnd
    \/ Rank

SpecDedup == InitDedup /\ [][NextDedup]_vars

\* The core stages in a row: deduplicate, the ranking, and the grouping and
\* KOL filter of the report generator, on arbitrary input lists.
NextCore ==
    \/ NextDedup
    \/ SaveReport

SpecCore == InitDedup /\ [][NextCore]_vars

\* run_pipeline from its entry to the hand-over of the capped list: to the
\* summarizer without --dry-run, to the written report with it.
NextCap ==
    \/ InitCollectors
    \/ \E k \in 1..Len(task) : TaskStart(k)
    \/ \E k \in 1..Len(task) : TaskReturn(k)
    \/ Merge
    \/ NextCore

SpecCap == InitCap /\ [][NextCap]_vars

\* collect() of each collector class, on arbitrary answers of its platform.
NextCollect ==
    \/ HackerNewsCollect
    \/ RedditCollect
    \/ TwitterCollect
    \/ TechNewsCollect
    \/ WeiboZhihuCollect

SpecCollect == InitCollect /\ [][NextCollect]_vars

\* collect() of Hacker News and of Reddit, on arbitrary answers to their
\* keyword queries.
NextQueries ==
    \/ HackerNewsCollectQueries
    \/ RedditCollectWithApi
    \/ RedditCollectWithJson

SpecQueries == InitQueries /\ [][NextQueries]_vars

\* collect() of the five collectors, on arbitrary timestamps.
NextStamps == CollectStamped

SpecStamps == InitStamps /\ [][NextStamps]_vars

\* _normalize_title, on arbitrary titles.
NextNormalize == NormalizeTitle

SpecNormalize == InitNormalize /\ [][NextNormalize]_vars

\* The report generator, on arbitrary input lists.
NextReport == SaveReport

SpecReport == InitReport /\ [][NextReport]_vars

(***************************************************************************)
(* Properties                                                              *)
(***************************************************************************)
Range(seq) == {seq[k] : k \in 1..Len(seq)}

InSeq(seq, x) == \E k \in 1..Len(seq) : seq[k] = x

TagSet(id) == Range(heap[id].tags)

Score2(id) == engagement_score2(heap[id])

\* The similarity of a's normalized title against b's, in the argument order
\* of the title phase (candidate a, kept b), reaches 0.75.
Similar(a, b) == IsDuplicateTitle[<<heap[a].title, heap[b].title>>]

\* C1: deduplicate applied to the list that deduplicate returned returns the
\* same records, in the same order and with the same tags.
C1_Idempotent ==
    pc = "rank" => deduplicate(heap, unique_items) = [items |-> unique_items, heap |-> heap]

\* Three records went in, two of equal score came out, one of them with the
\* tags of the record merged into it.
C1_Witness ==
    /\ pc = "rank"
    /\ Len(all_items) = 3
    /\ Len(unique_items) = 2
    /\ Score2(unique_items[1]) = Score2(unique_items[2])
    /\ \E k \in 1..2 : /\ heap[unique_items[k]].source = "reddit"
                       /\ Len(heap[unique_items[k]].tags) = 2

\* URLs of the pool that differ only by a tracking parameter (ref=a or
\* utm_s=y), a trailing slash or the scheme: the variants of https://x/p, and
\* the variants of https://x/p?id=1 (ref=a before or after id=1).
SamePageUrls == {{UrlBase, UrlHttp, UrlSlash, UrlRef, UrlUtm}, {UrlId, UrlRefId, UrlIdRef}}

DifferOnlyByTracking(u, v) == u # v /\ \E c \in SamePageUrls : u \in c /\ v \in c

\* C2: of two input records whose urls differ only by a tracking parameter (in
\* any position of the query string), a trailing slash or the scheme,
\* deduplicate keeps exactly one, and none of the two has a higher score.
C2_UrlConflict ==
    (/\ pc = "rank"
     /\ Len(all_items) = 2
     /\ DifferOnlyByTracking(heap[all_items[1]].url, heap[all_items[2]].url))
    => \E w \in Range(all_items) :
          /\ unique_items = <<w>>
          /\ \A o \in Range(all_items) : Score2(w) >= Score2(o)

\* C3, as stated: of any two records of the title phase's input whose
\* normalized titles have similarity >= 0.75 (in either argument order), the
\* lower-scored one is absent from the output, the higher-scored one is in it,
\* and the higher-scored one's tags contain the tags of both.
C3_CollapseToHigher ==
    pc = "rank" =>
        \A i, j \in Range(url_deduped) :
            (Similar(i, j) /\ Similar(j, i) /\ Score2(i) > Score2(j))
            => /\ ~InSeq(unique_items, j)
               /\ InSeq(unique_items, i)
               /\ TagSet(j) \subseteq TagSet(i)

\* The first record of list that id's title reaches the threshold against.
FirstMatch(list, id) == list[FirstOf({k \in 1..Len(list) : Similar(id, list[k])})]

\* C3, amended: of two records of the title phase's input, if the one ranked
\* earlier is in the output and the later one's title has similarity >= 0.75
\* against it, the later one is absent from the output and its tags are
\* contained in the tags of the first output record it is that similar to.
C3_CollapseToKept ==
    pc = "rank" =>
        \A i, j \in Range(url_deduped) :
            (/\ IndexOf(sorted_items, i) < IndexOf(sorted_items, j)
             /\ InSeq(unique_items, i)
             /\ Similar(j, i))
            => /\ ~InSeq(unique_items, j)
               /\ TagSet(j) \subseteq TagSet(FirstMatch(unique_items, j))

\* Three records entered the title phase; a lower-scored one was merged into a
\* higher-scored one, whose tags grew.
C3_Witness ==
    /\ pc = "rank"
    /\ Len(url_deduped) = 3
    /\ \E i, j \in Range(url_deduped) :
          /\ Score2(i) > Score2(j)
          /\ Similar(j, i)
          /\ InSeq(unique_items, i)
          /\ ~InSeq(unique_items, j)
          /\ heap[i].source = "reddit"
          /\ Len(heap[i].tags) = 2
          /\ TagSet(j) \subseteq TagSet(i)

\* result is old, followed by the members of new that are not in old, each
\* once, in the order of their first occurrence in new; no member twice.
IsOrderedUnion(result, old, new) ==
    /\ Len(result) >= Len(old)
    /\ SubSeq(result, 1, Len(old)) = old
    /\ \A a, b \in 1..Len(result) : a # b => result[a] # result[b]
    /\ {result[k] : k \in (Len(old) + 1)..Len(result)} = Range(new) \ Range(old)
    /\ \A a, b \in (Len(old) + 1)..Len(result) :
          a < b => IndexOf(new, result[a]) < IndexOf(new, result[b])

\* C4: when the title phase discards a candidate as a duplicate of a kept
\* record, that record's tags afterwards are its previous tags in their order,
\* followed by the candidate's tags that were not present, in the candidate's
\* order, no tag twice; no other record changes.
C4_TagUnionOrder ==
    [][(pc = "title_scan" /\ scan' = scan + 1 /\ kept' = kept)
       => \E k \in 1..Len(kept) :
             /\ Similar(sorted_items[scan], kept[k])
             /\ IsOrderedUnion(heap'[kept[k]].tags, heap[kept[k]].tags,
                               heap[sorted_items[scan]].tags)
             /\ \A id \in DOMAIN heap \ {kept[k]} : heap'[id] = heap[id]]_vars

\* A kept record that held Cursor has received Claude from a discarded
\* candidate: the new tag stands after the old one.
C4_Witness ==
    /\ pc = "title_scan"
    /\ scan > Len(kept) + 1
    /\ \E k \in 1..Len(kept) : heap[kept[k]].tags = <<"Cursor", "Claude">>

\* C5, as stated: two records whose normalized titles have similarity below
\* 0.75 (in both argument orders) are not merged by deduplicate; here for a
\* list of just the two, where both must then be in the output.
C5_NeverMerged ==
    (/\ pc = "rank"
     /\ Len(all_items) = 2
     /\ ~Similar(all_items[1], all_items[2])
     /\ ~Similar(all_items[2], all_items[1]))
    => \A id \in Range(all_items) : InSeq(unique_items, id)

\* C5, amended: records are merged only on equal normalized URLs or on a title
\* similarity >= 0.75.  The URL phase drops a record only when a record of the
\* same normalized URL stays; in the title phase no kept record is dropped, a
\* kept record that the candidate's title is below 0.75 against keeps its tags,
\* and a candidate below 0.75 against every kept record is kept with its tags.
C5_MergedOnlyOnMatch ==
    [][/\ (pc = "dedup" /\ pc' = "title_begin")
          => \A i \in Range(all_items) :
                ~InSeq(url_deduped', i)
                => \E j \in Range(url_deduped') :
                      NormalizedUrl[heap[j].url] = NormalizedUrl[heap[i].url]
       /\ (pc = "title_scan" /\ scan' = scan + 1)
          => /\ \A k \in 1..Len(kept) :
                   /\ kept'[k] = kept[k]
                   /\ ~Similar(sorted_items[scan], kept[k])
                      => heap'[kept[k]].tags = heap[kept[k]].tags
             /\ (\A k \in 1..Len(kept) : ~Similar(sorted_items[scan], kept[k]))
                => /\ kept' = Append(kept, sorted_items[scan])
                   /\ heap'[sorted_items[scan]].tags = heap[sorted_items[scan]].tags]_vars

\* Two records of different score and different normalized URL, neither title
\* reaching 0.75 against the other, are both kept, each with its one tag.
C5_Witness ==
    /\ pc = "title_scan"
    /\ Len(kept) = 2
    /\ Score2(kept[1]) > Score2(kept[2])
    /\ ~Similar(kept[2], kept[1])
    /\ ~Similar(kept[1], kept[2])
    /\ NormalizedUrl[heap[kept[1]].url] # NormalizedUrl[heap[kept[2]].url]
    /\ Len(heap[kept[1]].tags) = 1
    /\ Len(heap[kept[2]].tags) = 1

\* gather has returned and the results are merged.
Merged == pc \notin {"init", "returned_none", "gather"}

\* What collector k's collect() contributes in this run.
Contribution(k) ==
    IF plan[collectors[k]].raises THEN <<>> ELSE plan[collectors[k]].items

\* C6: whatever order the safe_collect tasks complete in, the merged list is
\* the collectors' results concatenated in configuration order, and the ranked
\* output is the one deduplicate and sort_by_engagement give on that list.
C6_MergeOrderInvariance ==
    /\ Merged => all_items = Concat([k \in 1..Len(collectors) |-> Contribution(k)], 1)
    /\ pc \in {"summarize", "raised", "report", "returned_path"}
       => unique_items = Take(sort_by_engagement(heap, deduplicate(heap, all_items).items),
                              max_report_items)

\* A later collector completed before an earlier one, both with a record, and
\* the report is written.
C6_Witness ==
    /\ pc = "returned_path"
    /\ report.written
    /\ Len(log) >= 2
    /\ log[1].collector > log[2].collector
    /\ Len(results[log[1].collector]) = 1
    /\ Len(results[log[2].collector]) = 1
    /\ Len(report.items) = 2

\* C7: in the ranked output (deduplicate, then sort_by_engagement), two records
\* of identical engagement_score stand in the relative order they had in the
\* merged input.
C7_StableTieBreak ==
    pc = "report" =>
        \A a, b \in 1..Len(unique_items) :
            (a < b /\ Score2(unique_items[a]) = Score2(unique_items[b]))
            => IndexOf(all_items, unique_items[a]) < IndexOf(all_items, unique_items[b])

\* C8: safe_collect never raises to the orchestrator.  A task whose collect()
\* raised has returned []; no exception leaves run_pipeline while a task is
\* unfinished; and the merged list holds, of every collector that did not
\* fail, exactly its records in their order, whatever the others did.
C8_SafeCollect ==
    /\ \A k \in 1..Len(task) :
          (task[k] = "done" /\ plan[collectors[k]].raises) => results[k] = <<>>
    /\ error # "" => \A k \in 1..Len(task) : task[k] = "done"
    /\ Merged => \A k \in 1..Len(collectors) :
                    ~plan[collectors[k]].raises
                    => SelectSeq(all_items, LAMBDA id : InSeq(plan[collectors[k]].items, id))
                       = plan[collectors[k]].items

\* One collector failed, another returned a record, and the merged list holds
\* that record.
C8_Witness ==
    /\ pc = "dedup"
    /\ \E k \in 1..Len(collectors) : plan[collectors[k]].raises
    /\ \E k \in 1..Len(collectors) : Len(results[k]) = 1
    /\ Len(all_items) >= 1

\* run_pipeline is over: it returned, or an exception left it.
RunOver == pc \in {"returned_none", "returned_path", "raised"}

\* C9: when at least one collector is constructed, run_pipeline ends only by
\* returning the path of a written report.
C9_AlwaysEmitsReport ==
    (collectors # <<>> /\ RunOver) => (pc = "returned_path" /\ report.written)

\* C10: every configured collector is constructed and started, none is called
\* more than once, and when the results are merged every task has finished and
\* every collect() was called exactly once, whichever collectors failed.
C10_AllCollectorsOnce ==
    /\ pc # "init" => Range(collectors) = {i \in 1..Len(sources) : sources[i] \in COLLECTOR_MAP}
    /\ \A k \in 1..Len(calls) : calls[k] <= 1
    /\ Merged => \A k \in 1..Len(collectors) : task[k] = "done" /\ calls[k] = 1

\* The first collector to finish failed; the others still ran, and the merge
\* took place after all of them.
C10_Witness ==
    /\ pc = "dedup"
    /\ Len(collectors) >= 2
    /\ log[1].event = "failed"
    /\ \E n \in 2..Len(log) : log[n].event = "done" /\ log[n].count = 1

\* C11: when no collector returned any record, run_pipeline still writes a
\* report: its ranked list is empty and its digest is the text that says that
\* no information was collected, with and without --dry-run.
C11_EmptyRunExplained ==
    (pc = "returned_path" /\ all_items = <<>>)
    => /\ report.written
       /\ report.items = <<>>
       /\ report.total_items = 0
       /\ report.daily_summary = NoDataDigest

\* How many times x stands in seq.
Count(seq, x) == Cardinality({k \in 1..Len(seq) : seq[k] = x})

\* The keys of a dict of lists under which x stands.
GroupsOf(groups, x) == {key \in DOMAIN groups.members : InSeq(groups.members[key], x)}

\* C12: group_by_product places a record with n >= 1 tags once in each of the
\* n groups named by its tags and in no other group, and a record without
\* tags once in the unclassified group and in no other; the groups hold input
\* records only.
C12_ProductMembership ==
    report.written =>
        LET groups == report.product_groups
        IN  /\ \A i \in 1..Len(report.items) :
                 LET id == report.items[i]
                     named == IF heap[id].tags = <<>> THEN {Unclassified} ELSE TagSet(id)
                 IN  /\ GroupsOf(groups, id) = named
                     /\ heap[id].tags # <<>>
                        => Cardinality(GroupsOf(groups, id)) = Len(heap[id].tags)
                     /\ \A key \in named : Count(groups.members[key], id) = 1
            /\ \A key \in DOMAIN groups.members :
                  Range(groups.members[key]) \subseteq Range(report.items)
            /\ Range(groups.keys) = DOMAIN groups.members

\* A record with two tags and a record with none were grouped, into three
\* groups.
C12_Witness ==
    /\ report.written
    /\ \E i, j \in 1..Len(report.items) :
          /\ Len(heap[report.items[i]].tags) = 2
          /\ heap[report.items[j]].tags = <<>>
    /\ Len(report.product_groups.keys) = 3

\* C13: group_by_source places every record in exactly one group, the one
\* keyed by its source, once; the member lists together hold each input
\* record exactly once and nothing else.
C13_SourceMembership ==
    report.written =>
        LET groups == report.source_groups
        IN  /\ \A i \in 1..Len(report.items) :
                 LET id == report.items[i]
                 IN  /\ GroupsOf(groups, id) = {heap[id].source}
                     /\ Count(groups.members[heap[id].source], id) = 1
            /\ \A key \in DOMAIN groups.members :
                  Range(groups.members[key]) \subseteq Range(report.items)
            /\ Range(groups.keys) = DOMAIN groups.members

\* Three records of two sources were grouped, two of them under one source.
C13_Witness ==
    /\ report.written
    /\ Len(report.items) = 3
    /\ Len(report.source_groups.keys) = 2
    /\ \E key \in DOMAIN report.source_groups.members :
          Len(report.source_groups.members[key]) = 2

\* Whether a list of records stands in descending engagement_score order.
Descending(seq) == \A a, b \in 1..Len(seq) : a < b => Score2(seq[a]) >= Score2(seq[b])

\* C14: every member list of group_by_product and every member list of
\* group_by_source stands in descending engagement_score order, whatever the
\* order of the input list.
C14_GroupsRanked ==
    report.written =>
        /\ \A key \in DOMAIN report.product_groups.members :
              Descending(report.product_groups.members[key])
        /\ \A key \in DOMAIN report.source_groups.members :
              Descending(report.source_groups.members[key])

\* The multiplier of a KOL tier as the claim states it, as a fraction.
TierMultiplier(kol_tier) ==
    IF kol_tier = "S" THEN <<3, 1>>
    ELSE IF kol_tier = "A" THEN <<2, 1>>
    ELSE IF kol_tier = "B" THEN <<3, 2>>
    ELSE <<1, 1>>

\* C15: the engagement_score of every record is
\* (engagement + 2 * comments_count) * m, with m = 3.0 for tier S, 2.0 for A,
\* 1.5 for B and 1.0 for every other tier, the empty one included; a record
\* with engagement 10, 5 comments and tier S scores 60.  (Score2 is twice the
\* score.)
C15_EngagementScore ==
    \A id \in DOMAIN heap :
        /\ Score2(id) * TierMultiplier(heap[id].kol_tier)[2]
           = 2 * (heap[id].engagement + 2 * heap[id].comments_count)
               * TierMultiplier(heap[id].kol_tier)[1]
        /\ (heap[id].engagement = 10 /\ heap[id].comments_count = 5 /\ heap[id].kol_tier = "S")
           => Score2(id) = 2 * 60

\* The report ranked three KOL records of equal likes and comments by their
\* tiers: S (scoring 60) before A before B.
C15_Witness ==
    /\ report.written
    /\ Len(report.kol_items) = 3
    /\ \A k \in 1..3 : /\ heap[report.kol_items[k]].engagement = 10
                       /\ heap[report.kol_items[k]].comments_count = 5
    /\ heap[report.kol_items[1]].kol_tier = "S"
    /\ heap[report.kol_items[2]].kol_tier = "A"
    /\ heap[report.kol_items[3]].kol_tier = "B"
    /\ report.items # report.kol_items
    /\ Score2(report.kol_items[1]) = 120
    /\ Score2(report.kol_items[3]) = 60

\* C16: the list deduplicate returns stands in non-increasing
\* engagement_score order, whatever the input list.
C16_DedupOutputRanked ==
    pc = "rank" => Descending(unique_items)

\* deduplicate returned three records, the highest score first, from an input
\* that began with the lowest score.
C16_Witness ==
    /\ pc = "rank"
    /\ Len(unique_items) = 3
    /\ Score2(unique_items[1]) > Score2(unique_items[3])
    /\ Score2(all_items[1]) < Score2(all_items[3])

\* The input records of the URL phase that share the normalized URL of id.
SameUrl(id) ==
    {x \in Range(all_items) : NormalizedUrl[heap[x].url] = NormalizedUrl[heap[id].url]}

\* C17: the URL phase returns exactly one record per distinct normalized URL
\* of its input; that record has the highest engagement_score among the
\* input records of its normalized URL, and stands before every other input
\* record of that URL with the same score.
C17_UrlPhaseSurvivor ==
    pc = "title_begin" =>
        /\ Range(url_deduped) \subseteq Range(all_items)
        /\ \A i \in 1..Len(all_items) :
              Cardinality({k \in 1..Len(url_deduped) : url_deduped[k] \in SameUrl(all_items[i])})
              = 1
        /\ \A k \in 1..Len(url_deduped) :
              \A x \in SameUrl(url_deduped[k]) \ {url_deduped[k]} :
                  \/ Score2(url_deduped[k]) > Score2(x)
                  \/ /\ Score2(url_deduped[k]) = Score2(x)
                     /\ IndexOf(all_items, url_deduped[k]) < IndexOf(all_items, x)

\* Three records of one page under three different URLs, the first with the
\* lowest score and the other two tied: the second one survives alone.
C17_Witness ==
    /\ pc = "title_begin"
    /\ Len(all_items) = 3
    /\ Cardinality({heap[all_items[i]].url : i \in 1..3}) = 3
    /\ Score2(all_items[1]) < Score2(all_items[2])
    /\ Score2(all_items[2]) = Score2(all_items[3])
    /\ url_deduped = <<all_items[2]>>

\* C18: collect() of every collector returns at most max_items_per_source
\* records, in descending engagement_score order, and orders them by no other
\* key: records of equal score stand in the order in which they were
\* gathered.
C18_CappedAndRanked ==
    pc = "collected" =>
        /\ Len(returned) <= max_items_per_source
        /\ Descending(returned)
        /\ \A a, b \in 1..Len(returned) :
              (a < b /\ Score2(returned[a]) = Score2(returned[b])) => returned[a] < returned[b]

\* C19: the list collect() returns holds no two records of the same url.
C19_NoDuplicateUrl ==
    pc = "collected" =>
        \A a, b \in 1..Len(returned) :
            a # b => heap[returned[a]].url # heap[returned[b]].url

\* C20: every record collect() returns, and so hands to deduplicate, has a
\* url and a title that are not empty.
C20_NonEmptyUrlAndTitle ==
    pc = "collected" =>
        \A a \in 1..Len(returned) :
            heap[returned[a]].url # <<>> /\ heap[returned[a]].title # <<>>

\* Whether seq stands at the head of longer.
IsPrefix(seq, longer) == Len(seq) <= Len(longer) /\ Take(longer, Len(seq)) = seq

\* C21: no step of the core stages (deduplicate, sort_by_engagement,
\* group_by_product, group_by_source, filter_kol_items) creates or removes a
\* record or writes any field but tags; tags only grows, by appending, and
\* only on a record that the title phase holds in its kept list.
C21_OnlyTagsGrow ==
    [][/\ DOMAIN heap' = DOMAIN heap
       /\ \A id \in DOMAIN heap :
             /\ [heap'[id] EXCEPT !.tags = heap[id].tags] = heap[id]
             /\ IsPrefix(heap[id].tags, heap'[id].tags)
             /\ heap'[id].tags # heap[id].tags
                => (pc = "title_scan" /\ InSeq(kept, id) /\ InSeq(kept', id))]_vars

\* The report of a run in which the title phase discarded a record and gave
\* its tag to the record it kept; the kept record's other fields are as they
\* were.
C21_Witness ==
    /\ report.written
    /\ Len(report.items) < Len(all_items)
    /\ \E id \in Range(report.items) :
          /\ heap[id].title = TitleAbcdBang
          /\ Len(heap[id].tags) = 2
          /\ heap[id].url = UrlOf(id)
          /\ heap[id].summary = <<>>
          /\ heap[id].sentiment = ""

\* The ranked, capped list of a merged list: what steps 4 of run_pipeline make
\* of all_items, whatever the flag.
RankedOf(h, items, cap) == Take(sort_by_engagement(h, deduplicate(h, items).items), cap)

\* C22: with the dry-run flag set only the summarizer is skipped.  The
\* summarizer never runs, no record's summary or sentiment is set, the digest
\* handed to the renderer is empty and no exception leaves the run; the list
\* that reaches the report step is, with and without the flag, the ranked and
\* capped deduplication of the merged list; and the report is written from it.
C22_DryRunSkipsOnlySummarizer ==
    /\ dry_run =>
          /\ pc # "summarize"
          /\ daily_summary = ""
          /\ error = ""
          /\ \A id \in DOMAIN heap : heap[id].summary = <<>> /\ heap[id].sentiment = ""
    /\ pc \in {"report", "returned_path"} =>
          unique_items = RankedOf(heap, all_items, max_report_items)
    /\ (dry_run /\ pc = "returned_path") =>
          /\ report.written
          /\ report.items = unique_items
          /\ report.daily_summary = ReportPlaceholder

\* A dry run collected three records, deduplicated them to two and wrote the
\* report from them.
C22_Witness ==
    /\ dry_run
    /\ pc = "returned_path"
    /\ Len(all_items) = 3
    /\ Len(report.items) = 2
    /\ report.written

\* C23: the list handed to the summarizer and to the renderer is the first N
\* records of the ranked deduplicated list, N being the --max-items value
\* when one is given and the configured max_items_per_report (50) otherwise.
C23_CapAfterRanking ==
    pc \in {"summarize", "report", "returned_path"} =>
        /\ Len(unique_items) <=
              (IF max_items # <<>> THEN max_items[1] ELSE DefaultMaxReportItems)
        /\ unique_items
           = RankedOf(heap, all_items,
                      IF max_items # <<>> THEN max_items[1] ELSE DefaultMaxReportItems)
        /\ report.written => report.items = unique_items

\* C24: the KOL list of the report holds exactly the records of the final
\* list whose is_kol is true, each once, in descending engagement_score order
\* with records of equal score in the order they have in the final list.
C24_KolList ==
    report.written =>
        /\ Range(report.kol_items) = {id \in Range(report.items) : heap[id].is_kol}
        /\ Cardinality(Range(report.kol_items)) = Len(report.kol_items)
        /\ Descending(report.kol_items)
        /\ \A a, b \in 1..Len(report.kol_items) :
              (a < b /\ Score2(report.kol_items[a]) = Score2(report.kol_items[b]))
              => IndexOf(report.items, report.kol_items[a])
                 < IndexOf(report.items, report.kol_items[b])

\* Of three records the first is no KOL's but carries a tier, and the other
\* two are a KOL's: the KOL list holds those two, the higher score first.
C24_Witness ==
    /\ report.written
    /\ Len(report.items) = 3
    /\ ~heap[report.items[1]].is_kol
    /\ heap[report.items[1]].kol_tier = "S"
    /\ report.kol_items = <<report.items[3], report.items[2]>>
    /\ Score2(report.items[3]) > Score2(report.items[2])

\* C25: a keyword query that fails inside a collector is recovered locally.
\* When collect() has returned, the records of every query that was answered
\* with posts are in the result (one record per url), before and after a
\* failed query, and nothing else is.
C25_SubOperationIsolated ==
    pc = "collected" =>
        /\ \A i \in 1..Len(queries.answers) :
              queries.answers[i].kind = "ok"
              => \A k \in 1..Len(queries.answers[i].hits) :
                    \E a \in 1..Len(returned) :
                        heap[returned[a]].url = queries.answers[i].hits[k].link
        /\ \A a \in 1..Len(returned) :
              \E i \in 1..Len(queries.answers) :
                  /\ queries.answers[i].kind = "ok"
                  /\ \E k \in 1..Len(queries.answers[i].hits) :
                        heap[returned[a]].url = queries.answers[i].hits[k].link

\* The url of a record ends with the link or id of the source item it was
\* made of.
EndsWith(url, link) ==
    /\ Len(url) >= Len(link)
    /\ Slice(url, Len(url) - Len(link) + 1, Len(url)) = link

\* C26: in every collector, a source item whose timestamp is absent or cannot
\* be parsed yields a record whose published_at is the current time: when
\* collect() has returned, each such item has its record among the records
\* the collector made.
C26_MissingTimeIsNow ==
    pc = "collected" /\ collector \in CollectorNames /\ queries = <<>> =>
        \A k \in 1..Len(source_items) :
            "created" \in DOMAIN source_items[k]
            /\ source_items[k].created.kind \in {"absent", "unparseable"}
            => \E id \in DOMAIN heap :
                  /\ EndsWith(heap[id].url, source_items[k].link)
                  /\ heap[id].published_at = Now

\* C27: _normalize_title returns a string that is lowercase, made only of
\* word characters (CJK included) and single spaces, with no run of two or
\* more whitespace characters and no whitespace at either end; normalizing
\* it again changes nothing.
C27_NormalForm ==
    pc = "normalized" =>
        /\ \A i \in 1..Len(normalized) :
              /\ normalized[i] \in WordChars \cup CJKChars \cup {" "}
              /\ normalized[i] \notin UpperChars
        /\ \A i \in 1..Len(normalized) - 1 :
              ~(normalized[i] \in SpaceChars /\ normalized[i + 1] \in SpaceChars)
        /\ normalized # <<>> =>
              normalized[1] \notin SpaceChars /\ normalized[Len(normalized)] \notin SpaceChars
        /\ _normalize_title(normalized) = normalized

\* C28: in the output of deduplicate, for every record a that stands before a
\* record b, the similarity of b's normalized title against a's is strictly
\* below the threshold, and no two records have the same normalized url.
C28_OutputPairwiseDistinct ==
    pc = "rank" =>
        \A a, b \in 1..Len(unique_items) :
            a < b =>
                /\ ~Similar(unique_items[b], unique_items[a])
                /\ NormalizedUrl[heap[unique_items[b]].url]
                       # NormalizedUrl[heap[unique_items[a]].url]

\* deduplicate returned two records of three, after its title phase discarded
\* a candidate whose title reached the threshold against the first of them but
\* not against the second.
C28_Witness ==
    /\ pc = "rank"
    /\ Len(url_deduped) = 3
    /\ Len(unique_items) = 2
    /\ \E j \in Range(url_deduped) \ Range(unique_items) :
          /\ Similar(j, unique_items[1])
          /\ ~Similar(j, unique_items[2])

\* The positions of the kept records that the candidate's title reaches the
\* threshold against.
MatchesOf(candidate) == {k \in 1..Len(kept) : Similar(candidate, kept[k])}

\* C29: when the title phase discards a candidate, its tags are unioned into
\* exactly one kept record: the earliest in kept order that its title reaches
\* the threshold against, which no other such record outscores.  The tags of
\* every other kept record, the others that reach the threshold included, are
\* unchanged by that step.
C29_UnionIntoEarliestMatch ==
    [][(pc = "title_scan" /\ scan' = scan + 1 /\ kept' = kept)
       => LET candidate == sorted_items[scan]
              first == FirstOf(MatchesOf(candidate))
          IN  /\ first # 0
              /\ Range(heap'[kept[first]].tags)
                     = Range(heap[kept[first]].tags) \cup Range(heap[candidate].tags)
              /\ \A k \in 1..Len(kept) :
                    k # first => heap'[kept[k]].tags = heap[kept[k]].tags
              /\ \A k \in MatchesOf(candidate) :
                    /\ first <= k
                    /\ Score2(kept[first]) >= Score2(kept[k])]_vars

\* The third candidate was discarded with two records kept; its title reaches
\* the threshold against both, the first holds its tags and the second lacks
\* one of them.
C29_Witness ==
    /\ pc = "title_scan"
    /\ scan = 4
    /\ Len(kept) = 2
    /\ MatchesOf(sorted_items[3]) = {1, 2}
    /\ TagSet(sorted_items[3]) \subseteq TagSet(kept[1])
    /\ \E t \in TagSet(sorted_items[3]) : t \notin TagSet(kept[2])

\* C30: the URL phase never changes any record's tags, and a tag carried only
\* by records the URL phase discards is absent from the output of
\* deduplicate, that is from every record the title phase returns for the
\* URL phase's survivors.
C30_UrlPhaseDropsTags ==
    [][pc = "dedup" =>
          /\ DOMAIN heap' = DOMAIN heap
          /\ \A id \in DOMAIN heap : heap'[id].tags = heap[id].tags
          /\ LET out == _deduplicate_by_title(heap', url_deduped')
             IN  \A t \in UNION {Range(heap[id].tags) : id \in DOMAIN heap} :
                    (\A id \in Range(all_items) :
                        t \in Range(heap[id].tags) => ~InSeq(url_deduped', id))
                    => \A k \in 1..Len(out.items) : t \notin Range(out.heap[out.items[k]].tags)]_vars

\* deduplicate returned after its URL phase discarded a record; one of that
\* record's tags is carried by no record the URL phase kept, and by no record
\* of the output.
C30_Witness ==
    /\ pc = "rank"
    /\ Len(url_deduped) < Len(all_items)
    /\ unique_items # <<>>
    /\ \E id \in Range(all_items) \ Range(url_deduped) : \E t \in TagSet(id) :
          /\ \A x \in Range(url_deduped) : t \notin TagSet(x)
          /\ \A x \in Range(unique_items) : t \notin TagSet(x)

=============================================================================
